---- MODULE Spec2Model ----
(***************************************************************************)
(* A model of the P colony / P swarm simulator of src/sim.py.              *)
(*                                                                         *)
(* State: every agent's obj multiset, every colony's env, the three swarm  *)
(* environments, each agent's chosenProgramNr and per-rule exec_rule_nr,   *)
(* the position of a running Pcolony.simulate, and the simResult and       *)
(* position of a running Pswarm.runSimulationStep / Pswarm.simulate.  The  *)
(* colonies (their programs, their e and n, their parentSwarm) are fixed   *)
(* by Init and never change.  A collections.Counter is a function whose    *)
(* DOMAIN is the set of stored keys, so a stored key with count 0 differs  *)
(* from an absent key.  The wildcard expansions and the parser are         *)
(* functions of their arguments: wild and parse hold the arguments of one  *)
(* call and what it returned.                                              *)
(*                                                                         *)
(* Spec: runSimulationStep of single colonies.  SpecSim: Pcolony.simulate. *)
(* SpecSwarm: Pswarm.runSimulationStep and Pswarm.simulate.  SpecWild:     *)
(* processObjectCounterWildcards and Agent.processWildcards.  SpecParse:   *)
(* process_tokens.                                                         *)
(***************************************************************************)
EXTENDS Integers, Sequences, FiniteSets, TLC

VARIABLES
    cfg,              \* the parsed colonies: e, n, parentSwarm, agents (dict order), programs, initial multisets
    obj,              \* obj[c][a]: Agent.obj
    env,              \* env[c]: Pcolony.env
    global_env,       \* Pswarm.global_env
    in_global_env,    \* Pswarm.in_global_env
    out_global_env,   \* Pswarm.out_global_env
    chosenProgramNr,  \* chosenProgramNr[c][a]: Agent.chosenProgramNr (0-based, -1 = none)
    exec_rule_nr,     \* exec_rule_nr[c][a][p][r]: Rule.exec_rule_nr
    last,             \* record of the last runSimulationStep: pre-state, selections, executed rules, result
    sim,              \* the running Pcolony.simulate: pc, colony, currentStep, maxSteps, maxTime, result, calls made
    swarm,            \* Pswarm.simResult, the running Pswarm.runSimulationStep and Pswarm.simulate, the last swarm step
    wild,             \* a wildcard expansion: its arguments and its result
    parse,            \* a process_tokens call: its tokens and the object it built
    snap              \* the object a getDeepCopyOf returned: its multisets, its parentSwarm, its last step

vars == <<cfg, obj, env, global_env, in_global_env, out_global_env,
          chosenProgramNr, exec_rule_nr, last, sim, swarm, wild, parse, snap>>

----------------------------------------------------------------------------
(* Bounds of the model *)

\* most copies of one object an initial environment holds
MaxCopies == 2
\* a step that would leave more than MaxCount copies of one object in an
\* environment is not taken
MaxCount == 3
\* largest currentStep a never-ending Pcolony.simulate is followed to
MaxCurrentStep == 3
\* largest maxSteps argument given to Pcolony.simulate
MaxStepLimit == 2
\* most keys of a multiset, programs of an agent and suffixes that a
\* wildcard expansion is given
MaxWild == 2

----------------------------------------------------------------------------
(* Types of src/sim.py *)

Objects == {"a", "b", "e"}
Colonies == {"c1", "c2"}
ColonyOrder == <<"c1", "c2">>

\* RuleType
evolution == "evolution"
communication == "communication"
conditional == "conditional"
exteroceptive == "exteroceptive"
in_exteroceptive == "in_exteroceptive"
out_exteroceptive == "out_exteroceptive"
SimpleTypes == {evolution, communication, exteroceptive, in_exteroceptive, out_exteroceptive}
SwarmTypes == {exteroceptive, in_exteroceptive, out_exteroceptive}

\* RuleExecOption
none == "none"
first == "first"
second == "second"

\* SimStepResult; "fault" stands for an exception leaving runSimulationStep
finished == "finished"
no_more_executables == "no_more_executables"
error == "error"
fault == "fault"

\* Rule(): a simple rule has main_type = type and the alt_ fields at their defaults
Rule(t, l, r) ==
    [main_type |-> t, type |-> t, lhs |-> l, rhs |-> r,
     alt_type |-> "0", alt_lhs |-> "", alt_rhs |-> ""]

\* a rule the parser built from "l t r / al at ar"
CondRule(t, l, r, at, al, ar) ==
    [main_type |-> conditional, type |-> t, lhs |-> l, rhs |-> r,
     alt_type |-> at, alt_lhs |-> al, alt_rhs |-> ar]

----------------------------------------------------------------------------
(* collections.Counter *)

EmptyCounter == [k \in {} |-> 0]

\* counter[k]: a missing key reads as 0 and is not stored
Count(m, k) == IF k \in DOMAIN m THEN m[k] ELSE 0

\* k in counter
Has(m, k) == k \in DOMAIN m

\* counter[k] += 1
Inc(m, k) == [x \in (DOMAIN m) \cup {k} |-> IF x = k THEN Count(m, k) + 1 ELSE m[x]]

\* counter[k] -= 1
Dec(m, k) == [x \in (DOMAIN m) \cup {k} |-> IF x = k THEN Count(m, k) - 1 ELSE m[x]]

\* del counter[k]
Del(m, k) == [x \in (DOMAIN m) \ {k} |-> m[x]]

\* a decrement that keeps the key of a count that has reached 0
DecPrune_KeepsZero(m, k) == [x \in (DOMAIN m) \cup {k} |-> IF x = k THEN Count(m, k) - 1 ELSE m[x]]

\* counter[k] -= 1; if counter[k] == 0: del counter[k]
DecPrune(m, k) == LET d == Dec(m, k) IN IF d[k] = 0 THEN Del(d, k) ELSE d

\* collections.Counter(list)
RECURSIVE CounterOf(_)
CounterOf(list) ==
    IF list = <<>> THEN EmptyCounter
    ELSE Inc(CounterOf(Tail(list)), Head(list))

RECURSIVE SumOver(_, _)
SumOver(m, keys) ==
    IF keys = {} THEN 0
    ELSE LET k == CHOOSE x \in keys : TRUE IN m[k] + SumOver(m, keys \ {k})

\* the total number of objects a counter holds
Total(m) == SumOver(m, DOMAIN m)

----------------------------------------------------------------------------
(* The simulated state as one value: what choseProgram reads and           *)
(* executeProgram changes.                                                 *)

World ==
    [obj |-> obj, env |-> env, global_env |-> global_env,
     in_global_env |-> in_global_env, out_global_env |-> out_global_env]

\* the attribute a rule type reads and writes: self.colony.env, or one of
\* self.colony.parentSwarm.global_env / in_global_env / out_global_env
EnvField(t) ==
    CASE t = communication -> "env"
      [] t = exteroceptive -> "global_env"
      [] t = in_exteroceptive -> "in_global_env"
      [] t = out_exteroceptive -> "out_global_env"

EnvCounter(w, c, t) == IF t = communication THEN w.env[c] ELSE w[EnvField(t)]

\* an exchange that always writes to the colony's own environment
SetEnvCounter_ColonyEnv(w, c, t, m) == [w EXCEPT !.env[c] = m]

SetEnvCounter(w, c, t, m) ==
    IF t = communication THEN [w EXCEPT !.env[c] = m]
    ELSE [w EXCEPT ![EnvField(t)] = m]

\* self.colony.parentSwarm is None: reading one of its environments raises
NoParent(c, t) == t \in SwarmTypes /\ ~cfg.parentSwarm[c]

Range(seq) == {seq[i] : i \in DOMAIN seq}

\* the branch of a rule that an exec_rule_nr value designates
BranchOf(rule, mark) ==
    IF mark = second
    THEN [type |-> rule.alt_type, lhs |-> rule.alt_lhs, rhs |-> rule.alt_rhs]
    ELSE [type |-> rule.type, lhs |-> rule.lhs, rhs |-> rule.rhs]

----------------------------------------------------------------------------
(* Agent.choseProgram *)

\* "t == communication and r not in env", and the same test for the three
\* swarm environments
EnvBlocked(w, c, t, r) ==
    /\ t \in {communication} \cup SwarmTypes
    /\ ~Has(EnvCounter(w, c, t), r)

\* a selection that tries the alternative branch of a conditional first
CheckRule_AltFirst(w, c, a, rule) ==
    IF rule.main_type # conditional
    THEN IF ~Has(w.obj[c][a], rule.lhs) THEN "fail"
         ELSE IF NoParent(c, rule.main_type) THEN "fault"
         ELSE IF EnvBlocked(w, c, rule.main_type, rule.rhs) THEN "fail"
         ELSE first
    ELSE IF ~Has(w.obj[c][a], rule.lhs) /\ ~Has(w.obj[c][a], rule.alt_lhs) THEN "fail"
         ELSE IF NoParent(c, rule.alt_type) THEN "fault"
         ELSE IF ~EnvBlocked(w, c, rule.alt_type, rule.alt_rhs) THEN second
         ELSE IF NoParent(c, rule.type) THEN "fault"
         ELSE IF EnvBlocked(w, c, rule.type, rule.rhs) THEN "fail"
         ELSE first

\* the tests of one rule: "fail" (executable = False; break), "fault" (an
\* exception), or the exec_rule_nr the rule is marked with
CheckRule(w, c, a, rule) ==
    IF rule.main_type # conditional
    THEN IF ~Has(w.obj[c][a], rule.lhs) THEN "fail"
         ELSE IF NoParent(c, rule.main_type) THEN "fault"
         ELSE IF EnvBlocked(w, c, rule.main_type, rule.rhs) THEN "fail"
         ELSE first
    ELSE IF ~Has(w.obj[c][a], rule.lhs) /\ ~Has(w.obj[c][a], rule.alt_lhs) THEN "fail"
         ELSE IF NoParent(c, rule.type) THEN "fault"
         ELSE IF EnvBlocked(w, c, rule.type, rule.rhs)
              THEN IF NoParent(c, rule.alt_type) THEN "fault"
                   ELSE IF EnvBlocked(w, c, rule.alt_type, rule.alt_rhs) THEN "fail"
                   ELSE second
              ELSE first

NoRequirements ==
    [obj |-> EmptyCounter, env |-> EmptyCounter, global_env |-> EmptyCounter,
     in_global_env |-> EmptyCounter, out_global_env |-> EmptyCounter]

\* required_obj[lhs] += 1 and, for a rule that takes from an environment,
\* required_<environment>[rhs] += 1
Require(req, b) ==
    LET r1 == [req EXCEPT !.obj = Inc(@, b.lhs)]
    IN IF b.type \in {communication} \cup SwarmTypes
       THEN [r1 EXCEPT ![EnvField(b.type)] = Inc(@, b.rhs)]
       ELSE r1

\* what the tests of rule i leave: executable = False (and the exception, if
\* one was raised), or the rule's exec_rule_nr and the required_* counters
RuleChecked(acc, i, rule, res) ==
    IF res = "fault" THEN [acc EXCEPT !.executable = FALSE, !.fault = TRUE]
    ELSE IF res = "fail" THEN [acc EXCEPT !.executable = FALSE]
    ELSE [acc EXCEPT !.marks[i] = res, !.req = Require(@, BranchOf(rule, res))]

\* the rule loop of one program, from rule i on, up to its break
RECURSIVE CheckRules(_, _, _, _, _, _)
CheckRules(w, c, a, program, i, acc) ==
    IF i > Len(program) \/ ~acc.executable THEN acc
    ELSE CheckRules(w, c, a, program, i + 1,
            RuleChecked(acc, i, program[i], CheckRule(w, c, a, program[i])))

\* if ('e' in required): del required['e']
DropE(required) == IF Has(required, "e") THEN Del(required, "e") ELSE required

\* requirement loops that do not look at required_obj
RequirementsMet_EnvOnly(w, c, a, req) ==
    \A t \in {communication} \cup SwarmTypes :
        \A k \in DOMAIN DropE(req[EnvField(t)]) :
            ~(Count(EnvCounter(w, c, t), k) < req[EnvField(t)][k])

\* the requirement loops that follow the rule loop
RequirementsMet(w, c, a, req) ==
    /\ \A k \in DOMAIN req.obj : ~(Count(w.obj[c][a], k) < req.obj[k])
    /\ \A t \in {communication} \cup SwarmTypes :
          \A k \in DOMAIN DropE(req[EnvField(t)]) :
              ~(Count(EnvCounter(w, c, t), k) < req[EnvField(t)][k])

\* "if (executable)" after the rule loop r: the requirement loops
ProgramChecked(w, c, a, r) ==
    [executable |-> r.executable /\ RequirementsMet(w, c, a, r.req),
     fault |-> r.fault, marks |-> r.marks]

\* one pass of "for nr, program in enumerate(self.programs)"
CheckProgram(w, c, a, program, marks) ==
    ProgramChecked(w, c, a,
        CheckRules(w, c, a, program, 1,
            [executable |-> TRUE, fault |-> FALSE, marks |-> marks,
             req |-> NoRequirements]))

\* "if (executable): possiblePrograms.append(nr)", nr counted from 1 here
ProgramAppended(acc, nr, r) ==
    [possiblePrograms |-> IF r.executable THEN Append(acc.possiblePrograms, nr - 1)
                          ELSE acc.possiblePrograms,
     fault |-> r.fault,
     marks |-> [acc.marks EXCEPT ![nr] = r.marks]]

\* the program loop from program nr on, up to an exception
RECURSIVE CheckPrograms(_, _, _, _, _)
CheckPrograms(w, c, a, nr, acc) ==
    IF nr > Len(cfg.programs[c][a]) \/ acc.fault THEN acc
    ELSE CheckPrograms(w, c, a, nr + 1,
            ProgramAppended(acc, nr,
                CheckProgram(w, c, a, cfg.programs[c][a][nr], acc.marks[nr])))

\* the program loop of choseProgram: possiblePrograms (program numbers from
\* 0), the exec_rule_nr it leaves on the agent's rules, and whether it raised
PossiblePrograms(w, c, a, marks) ==
    CheckPrograms(w, c, a, 1,
        [possiblePrograms |-> <<>>, fault |-> FALSE, marks |-> marks])

\* random.randint(lo, hi)
RandInt(lo, hi) == lo .. hi

\* a choice that never draws the last applicable program
ChoseOutcomes_OffByOne(possiblePrograms) ==
    IF Len(possiblePrograms) = 1
    THEN {[ret |-> TRUE, chosenProgramNr |-> possiblePrograms[1]]}
    ELSE IF Len(possiblePrograms) > 1
    THEN {[ret |-> TRUE, chosenProgramNr |-> possiblePrograms[rand_value + 1]] :
             rand_value \in RandInt(0, Len(possiblePrograms) - 2)}
    ELSE {[ret |-> FALSE, chosenProgramNr |-> -1]}

\* a choice that may turn down the only applicable program
ChoseOutcomes_MayDecline(possiblePrograms) ==
    IF Len(possiblePrograms) = 1
    THEN {[ret |-> TRUE, chosenProgramNr |-> possiblePrograms[1]],
          [ret |-> FALSE, chosenProgramNr |-> -1]}
    ELSE IF Len(possiblePrograms) > 1
    THEN {[ret |-> TRUE, chosenProgramNr |-> possiblePrograms[rand_value + 1]] :
             rand_value \in RandInt(0, Len(possiblePrograms) - 1)}
    ELSE {[ret |-> FALSE, chosenProgramNr |-> -1]}

\* what choseProgram can return and leave in chosenProgramNr
ChoseOutcomes(possiblePrograms) ==
    IF Len(possiblePrograms) = 1
    THEN {[ret |-> TRUE, chosenProgramNr |-> possiblePrograms[1]]}
    ELSE IF Len(possiblePrograms) > 1
    THEN {[ret |-> TRUE, chosenProgramNr |-> possiblePrograms[rand_value + 1]] :
             rand_value \in RandInt(0, Len(possiblePrograms) - 1)}
    ELSE {[ret |-> FALSE, chosenProgramNr |-> -1]}

----------------------------------------------------------------------------
(* Agent.executeProgram *)

\* an execution that decrements the environment also when rhs is e
ExecBranch_TakesE(w, c, a, b) ==
    IF Count(w.obj[c][a], b.lhs) <= 0
    THEN [ok |-> FALSE, fault |-> FALSE, w |-> w]
    ELSE LET w1 == [w EXCEPT !.obj[c][a] = DecPrune(@, b.lhs)]
         IN IF b.type = evolution
            THEN [ok |-> TRUE, fault |-> FALSE,
                  w |-> [w1 EXCEPT !.obj[c][a] = Inc(@, b.rhs)]]
            ELSE IF b.type \in {communication} \cup SwarmTypes
            THEN IF NoParent(c, b.type)
                 THEN [ok |-> FALSE, fault |-> TRUE, w |-> w1]
                 ELSE IF Count(EnvCounter(w1, c, b.type), b.rhs) <= 0
                 THEN [ok |-> FALSE, fault |-> FALSE, w |-> w1]
                 ELSE LET taken == DecPrune(EnvCounter(w1, c, b.type), b.rhs)
                          given == IF b.lhs # cfg.e[c] THEN Inc(taken, b.lhs) ELSE taken
                          w2 == SetEnvCounter(w1, c, b.type, given)
                      IN [ok |-> TRUE, fault |-> FALSE,
                          w |-> [w2 EXCEPT !.obj[c][a] = Inc(@, b.rhs)]]
            ELSE [ok |-> TRUE, fault |-> FALSE, w |-> w1]

\* an execution that hands the lhs to the environment also when lhs is e
ExecBranch_GivesE(w, c, a, b) ==
    IF Count(w.obj[c][a], b.lhs) <= 0
    THEN [ok |-> FALSE, fault |-> FALSE, w |-> w]
    ELSE LET w1 == [w EXCEPT !.obj[c][a] = DecPrune(@, b.lhs)]
         IN IF b.type = evolution
            THEN [ok |-> TRUE, fault |-> FALSE,
                  w |-> [w1 EXCEPT !.obj[c][a] = Inc(@, b.rhs)]]
            ELSE IF b.type \in {communication} \cup SwarmTypes
            THEN IF NoParent(c, b.type)
                 THEN [ok |-> FALSE, fault |-> TRUE, w |-> w1]
                 ELSE IF Count(EnvCounter(w1, c, b.type), b.rhs) <= 0
                 THEN [ok |-> FALSE, fault |-> FALSE, w |-> w1]
                 ELSE LET taken == IF b.rhs # cfg.e[c]
                                   THEN DecPrune(EnvCounter(w1, c, b.type), b.rhs)
                                   ELSE EnvCounter(w1, c, b.type)
                          given == Inc(taken, b.lhs)
                          w2 == SetEnvCounter(w1, c, b.type, given)
                      IN [ok |-> TRUE, fault |-> FALSE,
                          w |-> [w2 EXCEPT !.obj[c][a] = Inc(@, b.rhs)]]
            ELSE [ok |-> TRUE, fault |-> FALSE, w |-> w1]

\* an execution that leaves in the environment the rhs it hands to the agent
ExecBranch_CopiesRhs(w, c, a, b) ==
    IF Count(w.obj[c][a], b.lhs) <= 0
    THEN [ok |-> FALSE, fault |-> FALSE, w |-> w]
    ELSE LET w1 == [w EXCEPT !.obj[c][a] = DecPrune(@, b.lhs)]
         IN IF b.type = evolution
            THEN [ok |-> TRUE, fault |-> FALSE,
                  w |-> [w1 EXCEPT !.obj[c][a] = Inc(@, b.rhs)]]
            ELSE IF b.type \in {communication} \cup SwarmTypes
            THEN IF NoParent(c, b.type)
                 THEN [ok |-> FALSE, fault |-> TRUE, w |-> w1]
                 ELSE IF Count(EnvCounter(w1, c, b.type), b.rhs) <= 0
                 THEN [ok |-> FALSE, fault |-> FALSE, w |-> w1]
                 ELSE LET taken == EnvCounter(w1, c, b.type)
                          given == IF b.lhs # cfg.e[c] THEN Inc(taken, b.lhs) ELSE taken
                          w2 == SetEnvCounter(w1, c, b.type, given)
                      IN [ok |-> TRUE, fault |-> FALSE,
                          w |-> [w2 EXCEPT !.obj[c][a] = Inc(@, b.rhs)]]
            ELSE [ok |-> TRUE, fault |-> FALSE, w |-> w1]

\* an execution that does not hand the lhs to the environment
ExecBranch_KeepsLhs(w, c, a, b) ==
    IF Count(w.obj[c][a], b.lhs) <= 0
    THEN [ok |-> FALSE, fault |-> FALSE, w |-> w]
    ELSE LET w1 == [w EXCEPT !.obj[c][a] = DecPrune(@, b.lhs)]
         IN IF b.type = evolution
            THEN [ok |-> TRUE, fault |-> FALSE,
                  w |-> [w1 EXCEPT !.obj[c][a] = Inc(@, b.rhs)]]
            ELSE IF b.type \in {communication} \cup SwarmTypes
            THEN IF NoParent(c, b.type)
                 THEN [ok |-> FALSE, fault |-> TRUE, w |-> w1]
                 ELSE IF Count(EnvCounter(w1, c, b.type), b.rhs) <= 0
                 THEN [ok |-> FALSE, fault |-> FALSE, w |-> w1]
                 ELSE LET taken == IF b.rhs # cfg.e[c]
                                   THEN DecPrune(EnvCounter(w1, c, b.type), b.rhs)
                                   ELSE EnvCounter(w1, c, b.type)
                          w2 == SetEnvCounter(w1, c, b.type, taken)
                      IN [ok |-> TRUE, fault |-> FALSE,
                          w |-> [w2 EXCEPT !.obj[c][a] = Inc(@, b.rhs)]]
            ELSE [ok |-> TRUE, fault |-> FALSE, w |-> w1]

\* an execution whose evolution rules all produce "b"
ExecBranch_MakesB(w, c, a, b) ==
    IF Count(w.obj[c][a], b.lhs) <= 0
    THEN [ok |-> FALSE, fault |-> FALSE, w |-> w]
    ELSE LET w1 == [w EXCEPT !.obj[c][a] = DecPrune(@, b.lhs)]
         IN IF b.type = evolution
            THEN [ok |-> TRUE, fault |-> FALSE,
                  w |-> [w1 EXCEPT !.obj[c][a] = Inc(@, "b")]]
            ELSE IF b.type \in {communication} \cup SwarmTypes
            THEN IF NoParent(c, b.type)
                 THEN [ok |-> FALSE, fault |-> TRUE, w |-> w1]
                 ELSE IF Count(EnvCounter(w1, c, b.type), b.rhs) <= 0
                 THEN [ok |-> FALSE, fault |-> FALSE, w |-> w1]
                 ELSE LET taken == IF b.rhs # cfg.e[c]
                                   THEN DecPrune(EnvCounter(w1, c, b.type), b.rhs)
                                   ELSE EnvCounter(w1, c, b.type)
                          given == IF b.lhs # cfg.e[c] THEN Inc(taken, b.lhs) ELSE taken
                          w2 == SetEnvCounter(w1, c, b.type, given)
                      IN [ok |-> TRUE, fault |-> FALSE,
                          w |-> [w2 EXCEPT !.obj[c][a] = Inc(@, b.rhs)]]
            ELSE [ok |-> TRUE, fault |-> FALSE, w |-> w1]

\* an execution that takes from the environment without looking at the
\* count again
ExecBranch_NoRecheck(w, c, a, b) ==
    IF Count(w.obj[c][a], b.lhs) <= 0
    THEN [ok |-> FALSE, fault |-> FALSE, w |-> w]
    ELSE LET w1 == [w EXCEPT !.obj[c][a] = DecPrune(@, b.lhs)]
         IN IF b.type = evolution
            THEN [ok |-> TRUE, fault |-> FALSE,
                  w |-> [w1 EXCEPT !.obj[c][a] = Inc(@, b.rhs)]]
            ELSE IF b.type \in {communication} \cup SwarmTypes
            THEN IF NoParent(c, b.type)
                 THEN [ok |-> FALSE, fault |-> TRUE, w |-> w1]
                 ELSE LET taken == IF b.rhs # cfg.e[c] /\ Count(EnvCounter(w1, c, b.type), b.rhs) > 0
                                   THEN DecPrune(EnvCounter(w1, c, b.type), b.rhs)
                                   ELSE EnvCounter(w1, c, b.type)
                          given == IF b.lhs # cfg.e[c] THEN Inc(taken, b.lhs) ELSE taken
                          w2 == SetEnvCounter(w1, c, b.type, given)
                      IN [ok |-> TRUE, fault |-> FALSE,
                          w |-> [w2 EXCEPT !.obj[c][a] = Inc(@, b.rhs)]]
            ELSE [ok |-> TRUE, fault |-> FALSE, w |-> w1]

\* one rule of the chosen program, b being the branch its exec_rule_nr
\* designates (lhs/type/rhs or alt_lhs/alt_type/alt_rhs): the lhs test and
\* removal, then the part of the rule's type.  The two branches of the
\* source differ only in the order of two independent += 1.
ExecBranch(w, c, a, b) ==
    IF Count(w.obj[c][a], b.lhs) <= 0
    THEN [ok |-> FALSE, fault |-> FALSE, w |-> w]
    ELSE LET w1 == [w EXCEPT !.obj[c][a] = DecPrune(@, b.lhs)]
         IN IF b.type = evolution
            THEN [ok |-> TRUE, fault |-> FALSE,
                  w |-> [w1 EXCEPT !.obj[c][a] = Inc(@, b.rhs)]]
            ELSE IF b.type \in {communication} \cup SwarmTypes
            THEN IF NoParent(c, b.type)
                 THEN [ok |-> FALSE, fault |-> TRUE, w |-> w1]
                 ELSE IF Count(EnvCounter(w1, c, b.type), b.rhs) <= 0
                 THEN [ok |-> FALSE, fault |-> FALSE, w |-> w1]
                 ELSE LET taken == IF b.rhs # cfg.e[c]
                                   THEN DecPrune(EnvCounter(w1, c, b.type), b.rhs)
                                   ELSE EnvCounter(w1, c, b.type)
                          given == IF b.lhs # cfg.e[c] THEN Inc(taken, b.lhs) ELSE taken
                          w2 == SetEnvCounter(w1, c, b.type, given)
                      IN [ok |-> TRUE, fault |-> FALSE,
                          w |-> [w2 EXCEPT !.obj[c][a] = Inc(@, b.rhs)]]
            ELSE [ok |-> TRUE, fault |-> FALSE, w |-> w1]

\* what rule i leaves after its branch b was run with outcome r: the state,
\* whether executeProgram goes on, and one more log entry with the state
\* before and after the rule
RuleExecuted(acc, c, a, i, choice, b, r) ==
    [ok |-> r.ok, fault |-> r.fault, w |-> r.w,
     log |-> Append(acc.log,
                [colony |-> c, agent |-> a, rule |-> i, choice |-> choice,
                 branch |-> b, ok |-> r.ok, before |-> acc.w, after |-> r.w])]

\* "for rule in program", from rule i on, up to the first "return False"
RECURSIVE ExecRules(_, _, _, _, _, _)
ExecRules(c, a, program, marks, i, acc) ==
    IF i > Len(program) \/ ~acc.ok THEN acc
    ELSE IF marks[i] \notin {first, second}
    THEN ExecRules(c, a, program, marks, i + 1, acc)
    ELSE ExecRules(c, a, program, marks, i + 1,
            RuleExecuted(acc, c, a, i, marks[i], BranchOf(program[i], marks[i]),
                ExecBranch(acc.w, c, a, BranchOf(program[i], marks[i]))))

\* executeProgram of agent a with chosenProgramNr nr and the exec_rule_nr
\* marks of its programs
ExecuteProgram(w, c, a, nr, marks, log) ==
    IF nr < 0 THEN [ok |-> FALSE, fault |-> FALSE, w |-> w, log |-> log]
    ELSE ExecRules(c, a, cfg.programs[c][a][nr + 1], marks[nr + 1], 1,
            [ok |-> TRUE, fault |-> FALSE, w |-> w, log |-> log])

----------------------------------------------------------------------------
(* Pcolony.runSimulationStep *)

\* the position in agents of the first agent whose choseProgram raises, or 0
FirstFault(agents, sel) ==
    IF \E i \in DOMAIN agents : sel[agents[i]].fault
    THEN CHOOSE i \in DOMAIN agents :
            /\ sel[agents[i]].fault
            /\ \A j \in 1 .. (i - 1) : ~sel[agents[j]].fault
    ELSE 0

\* the first loop, ff being FirstFault: the agents whose choseProgram ran,
\* and those whose choseProgram returned
SelectionUpTo(agents, sel, ff) ==
    [sel |-> sel,
     raised |-> ff # 0,
     ran |-> IF ff = 0 THEN Range(agents) ELSE {agents[i] : i \in 1 .. ff},
     returned |-> IF ff = 0 THEN Range(agents) ELSE {agents[i] : i \in 1 .. (ff - 1)}]

SelectionOf(agents, sel) == SelectionUpTo(agents, sel, FirstFault(agents, sel))

\* the state after the first agent of c, whose selection gave sel1, has
\* executed the first of its possible programs
Selection_FirstRan(c, sel1) ==
    IF sel1.fault \/ sel1.possiblePrograms = <<>> THEN World
    ELSE ExecuteProgram(World, c, cfg.agents[c][1], sel1.possiblePrograms[1],
                        sel1.marks, <<>>).w

\* a step of a single loop: the agents after the first one select against
\* the state the first agent's program has left
Selection_Interleaved(c) ==
    SelectionOf(cfg.agents[c],
        [a \in Range(cfg.agents[c]) |->
            PossiblePrograms(
                IF a = cfg.agents[c][1] THEN World
                ELSE Selection_FirstRan(c,
                        PossiblePrograms(World, c, cfg.agents[c][1],
                                         exec_rule_nr[c][cfg.agents[c][1]])),
                c, a, exec_rule_nr[c][a])])

\* a selection that reads the swarm environments as they were built, not as
\* the colonies before c have left them
Selection_Stale(c) ==
    SelectionOf(cfg.agents[c],
        [a \in Range(cfg.agents[c]) |->
            PossiblePrograms(
                [World EXCEPT !.global_env = cfg.init.global_env,
                              !.in_global_env = cfg.init.in_global_env,
                              !.out_global_env = cfg.init.out_global_env],
                c, a, exec_rule_nr[c][a])])

\* the first loop: the program loop of choseProgram of every agent, in the
\* order of self.agents.items(), up to the first one that raises
Selection(c) ==
    SelectionOf(cfg.agents[c],
        [a \in Range(cfg.agents[c]) |->
            PossiblePrograms(World, c, a, exec_rule_nr[c][a])])

\* every way the choseProgram calls of one step can end, s being its
\* Selection: out[a] is what the call of agent a returned and left in
\* chosenProgramNr (an agent whose call did not return keeps its
\* chosenProgramNr)
SelectionOutcomes(c, s) ==
    LET of(a) == IF a \in s.returned
                 THEN ChoseOutcomes(s.sel[a].possiblePrograms)
                 ELSE {[ret |-> FALSE, chosenProgramNr |-> chosenProgramNr[c][a]]}
    IN {out \in [Range(cfg.agents[c]) -> UNION {of(a) : a \in Range(cfg.agents[c])}] :
           \A a \in Range(cfg.agents[c]) : out[a] \in of(a)}

\* a step that takes every agent as runnable
RunnableAgents_All(agents, out) == agents

\* runnableAgents: the agents for which choseProgram returned True
RECURSIVE RunnableAgents(_, _)
RunnableAgents(agents, out) ==
    IF agents = <<>> THEN <<>>
    ELSE IF out[Head(agents)].ret
    THEN <<Head(agents)>> \o RunnableAgents(Tail(agents), out)
    ELSE RunnableAgents(Tail(agents), out)

\* a second loop that goes on to the next agent whatever executeProgram
\* returned
AgentExecuted_GoesOn(r) ==
    [result |-> IF r.fault THEN fault ELSE finished, w |-> r.w, log |-> r.log]

\* what the step is left with after executeProgram of one agent gave r
AgentExecuted(r) ==
    [result |-> IF r.fault THEN fault ELSE IF ~r.ok THEN error ELSE finished,
     w |-> r.w, log |-> r.log]

\* "for agent_name in runnableAgents", from the i-th on, up to the first
\* "return SimStepResult.error"
RECURSIVE ExecuteAgents(_, _, _, _, _, _)
ExecuteAgents(c, runnableAgents, i, chosen, marks, acc) ==
    IF i > Len(runnableAgents) \/ acc.result # finished THEN acc
    ELSE ExecuteAgents(c, runnableAgents, i + 1, chosen, marks,
            AgentExecuted(
                ExecuteProgram(acc.w, c, runnableAgents[i], chosen[runnableAgents[i]],
                               marks[runnableAgents[i]], acc.log)))

\* a selection whose reads store the key they look up in the colony
\* environment
AfterSelection_StoresKeys(w, c, s) ==
    [w EXCEPT !.env[c] = [k \in DOMAIN w.env[c] \cup {"a"} |-> Count(w.env[c], k)]]

\* the state the first loop s leaves: choseProgram tests "in" and compares
\* counts on obj and on the environments, and assigns chosenProgramNr and
\* the exec_rule_nr of its rules only
AfterSelection(w, c, s) == w

\* the step after its first loop s
StepRun(w, c, s, runnableAgents, chosen, marks) ==
    IF s.raised THEN [result |-> fault, w |-> w, log |-> <<>>]
    ELSE IF Len(runnableAgents) = 0
    THEN [result |-> no_more_executables, w |-> w, log |-> <<>>]
    ELSE ExecuteAgents(c, runnableAgents, 1, chosen, marks,
            [result |-> finished, w |-> w, log |-> <<>>])

\* the state a step leaves and the record of what it did
StepRecord(w, c, s, out, runnableAgents, chosen, marks, run) ==
    [w |-> run.w, marks |-> marks, chosen |-> chosen,
     last |-> [colony |-> c, result |-> run.result, pre |-> w,
               possiblePrograms |->
                   [a \in Range(cfg.agents[c]) |-> s.sel[a].possiblePrograms],
               returned |-> s.returned, out |-> out,
               runnableAgents |-> runnableAgents, log |-> run.log]]

\* the exec_rule_nr the first loop s leaves on the rules of colony c
MarksAfter(c, s) ==
    [a \in Range(cfg.agents[c]) |->
        IF a \in s.ran THEN s.sel[a].marks ELSE exec_rule_nr[c][a]]

\* the whole step of colony c, given its first loop s and the outcome
\* out[a] of each agent's choseProgram
StepOutcome(c, s, out) ==
    StepRecord(World, c, s, out, RunnableAgents(cfg.agents[c], out),
        [a \in Range(cfg.agents[c]) |-> out[a].chosenProgramNr], MarksAfter(c, s),
        StepRun(AfterSelection(World, c, s), c, s, RunnableAgents(cfg.agents[c], out),
            [a \in Range(cfg.agents[c]) |-> out[a].chosenProgramNr], MarksAfter(c, s)))

\* no environment holds more than MaxCount copies of an object
Bounded(w) ==
    \A m \in {w.global_env, w.in_global_env, w.out_global_env}
              \cup {w.env[c] : c \in Colonies} :
        \A k \in DOMAIN m : m[k] <= MaxCount

\* the state is the one the step outcome r describes
StepTo(c, r) ==
    /\ Bounded(r.w)
    /\ obj' = r.w.obj
    /\ env' = r.w.env
    /\ global_env' = r.w.global_env
    /\ in_global_env' = r.w.in_global_env
    /\ out_global_env' = r.w.out_global_env
    /\ chosenProgramNr' = [chosenProgramNr EXCEPT ![c] = r.chosen]
    /\ exec_rule_nr' = [exec_rule_nr EXCEPT ![c] = r.marks]
    /\ last' = r.last

\* the state change of one runSimulationStep of colony c
Step(c) ==
    \E s \in {Selection(c)} : \E out \in SelectionOutcomes(c, s) :
        \E r \in {StepOutcome(c, s, out)} : StepTo(c, r)

\* colony.runSimulationStep() called on its own
RunSimulationStep(c) ==
    /\ sim.pc = "idle"
    /\ Step(c)
    /\ swarm.pc = "idle"
    /\ UNCHANGED <<cfg, sim, swarm, wild, parse, snap>>

----------------------------------------------------------------------------
(* Pcolony.simulate *)

\* a driver that looks at the limits before it looks for no_more_executables
SimulateTests_LimitsFirst(simResult, timeUp, currentStep, maxSteps, maxTime) ==
    IF simResult = error THEN "False"
    ELSE IF timeUp /\ maxTime > 0 THEN "False"
    ELSE IF currentStep >= maxSteps /\ maxSteps > 0 THEN "False"
    ELSE IF simResult = no_more_executables THEN "True"
    ELSE "continue"

\* a driver that never looks at the step limit
SimulateTests_NoStepLimit(simResult, timeUp, currentStep, maxSteps, maxTime) ==
    IF simResult = no_more_executables THEN "True"
    ELSE IF simResult = error THEN "False"
    ELSE IF timeUp /\ maxTime > 0 THEN "False"
    ELSE "continue"

\* the tests that follow runSimulationStep in the loop, timeUp being
\* currentTime >= finalTime: "True" (break; return True), "False"
\* (return False) or "continue" (currentStep += 1)

SimulateTests(simResult, timeUp, currentStep, maxSteps, maxTime) ==
    IF simResult = no_more_executables THEN "True"
    ELSE IF simResult = error THEN "False"
    ELSE IF timeUp /\ maxTime > 0 THEN "False"
    ELSE IF currentStep >= maxSteps /\ maxSteps > 0 THEN "False"
    ELSE "continue"

\* colony.simulate(maxSteps = ..., maxTime = ...) is called: currentStep = 0
Simulate(c, maxSteps, maxTime) ==
    /\ sim.pc = "idle"
    /\ sim' = [pc |-> "loop", colony |-> c, currentStep |-> 0, maxSteps |-> maxSteps,
               maxTime |-> maxTime, ret |-> "none", timeUp |-> FALSE, calls |-> 0]
    /\ swarm.pc = "idle"
    /\ UNCHANGED <<cfg, obj, env, global_env, in_global_env, out_global_env,
                   chosenProgramNr, exec_rule_nr, last, swarm, wild, parse, snap>>

\* one pass of the loop; calls counts the runSimulationStep calls of this
\* simulate.  finalTime = startTime + maxTime: with maxTime <= 0
\* the clock has always passed it, with maxTime > 0 it may or may not have
SimulateIteration ==
    /\ sim.pc = "loop"
    /\ sim.currentStep <= MaxCurrentStep
    /\ Step(sim.colony)
    /\ \E timeUp \in (IF sim.maxTime > 0 THEN BOOLEAN ELSE {TRUE}) :
          LET t == SimulateTests(last'.result, timeUp, sim.currentStep,
                                 sim.maxSteps, sim.maxTime)
          IN sim' = IF last'.result = fault
                    THEN [sim EXCEPT !.pc = "raised", !.timeUp = timeUp, !.calls = @ + 1]
                    ELSE IF t = "continue"
                    THEN [sim EXCEPT !.currentStep = @ + 1, !.timeUp = timeUp,
                                     !.calls = @ + 1]
                    ELSE [sim EXCEPT !.pc = "returned", !.ret = t, !.timeUp = timeUp,
                                     !.calls = @ + 1]
    /\ UNCHANGED <<cfg, swarm, wild, parse, snap>>

----------------------------------------------------------------------------
(* Pswarm.runSimulationStep and Pswarm.simulate.  The loop over C is       *)
(* followed colony by colony: swarm.i is the position in C, and one        *)
(* Pcolony.runSimulationStep is one action.                                *)

\* simulate: self.simResult = {colony_name: -1 for colony_name in self.C}
NotRun == "-1"

\* Pswarm.__init__: self.simResult = {}
NoResults == [c \in {} |-> NotRun]

\* no Pswarm.simulate has returned yet
NoSwarmTests == [stepResult |-> "none", currentStep |-> 0]

\* no Pswarm.runSimulationStep has returned yet
NoSwarmStep == [result |-> "none", prior |-> NoResults, post |-> NoResults,
                advanced |-> <<>>, results |-> <<>>, skipped |-> <<>>]

\* a loop that passes over no colony
SwarmSkips_Never(sw, c) == FALSE

\* "if (self.simResult[colony_name] == SimStepResult.no_more_executables): continue"
SwarmSkips(sw, c) == sw.simResult[c] = no_more_executables

\* a loop that runs the colony and drops its result
SwarmRecorded_Forgets(sw, c, result) ==
    [sw EXCEPT !.advanced = Append(@, c),
               !.results = Append(@, result)]

\* "self.simResult[colony_name] = self.colonies[colony_name].runSimulationStep()"
SwarmRecorded(sw, c, result) ==
    [sw EXCEPT !.simResult[c] = result,
               !.advanced = Append(@, c),
               !.results = Append(@, result)]

\* a swarm step that never reports the end
SwarmStepResult_AlwaysFinished(finished_flag) == finished

\* the value returned after the loop over C
SwarmStepResult(finished_flag) ==
    IF finished_flag THEN no_more_executables ELSE finished

\* the first lines of Pswarm.runSimulationStep: finished = True.  calls
\* counts the swarm steps of a Pswarm.simulate
SwarmStepBegins(sw) ==
    [sw EXCEPT !.pc = "step", !.i = 1, !.finished = TRUE, !.prior = sw.simResult,
               !.advanced = <<>>, !.results = <<>>, !.skipped = <<>>,
               !.calls = IF sw.inSimulate THEN @ + 1 ELSE @]

\* the tests of Pswarm.simulate after a swarm step, timeUp being
\* currentTime >= finalTime: "False" (return False), "True" (the loop ends
\* with finished; return True) or "continue"
SwarmSimulateTests(stepResult, timeUp, currentStep, maxSteps, maxTime) ==
    IF stepResult = error THEN "False"
    ELSE IF timeUp /\ maxTime > 0 THEN "False"
    ELSE IF currentStep >= maxSteps /\ maxSteps > 0 THEN "False"
    ELSE IF stepResult = no_more_executables THEN "True"
    ELSE "continue"

\* what Pswarm.simulate had at hand when it returned: the result of its last
\* swarm step and currentStep
SwarmTested(sw) == [stepResult |-> sw.stepResult, currentStep |-> sw.currentStep]

\* the swarm step is over; lastStep keeps what it did
SwarmStepKept(sw, result) ==
    [sw EXCEPT !.stepResult = result,
               !.lastStep = [result |-> result, prior |-> sw.prior, post |-> sw.simResult,
                             advanced |-> sw.advanced, results |-> sw.results,
                             skipped |-> sw.skipped]]

\* Pswarm.simulate after the swarm step, t being the outcome of its tests
SwarmSimulateGoesOn(sw, t, timeUp) ==
    IF t = "False"
    THEN [sw EXCEPT !.pc = "idle", !.inSimulate = FALSE, !.ret = t, !.timeUp = timeUp,
                    !.tested = SwarmTested(sw)]
    ELSE IF t = "True"
    THEN [sw EXCEPT !.pc = "idle", !.inSimulate = FALSE, !.ret = t, !.timeUp = timeUp,
                    !.tested = SwarmTested(sw), !.currentStep = @ + 1]
    ELSE SwarmStepBegins([sw EXCEPT !.currentStep = @ + 1, !.timeUp = timeUp])

\* "return result" of Pswarm.runSimulationStep: to nobody when it was called
\* on its own, to the loop of Pswarm.simulate otherwise
SwarmStepReturns(sw, result, timeUp) ==
    IF ~sw.inSimulate
    THEN [SwarmStepKept(sw, result) EXCEPT !.pc = "idle"]
    ELSE SwarmSimulateGoesOn(SwarmStepKept(sw, result),
            SwarmSimulateTests(result, timeUp, sw.currentStep, sw.maxSteps, sw.maxTime),
            timeUp)

\* the loop body after the colony's runSimulationStep gave result
SwarmColonyDone(sw, c, result, timeUp) ==
    IF result = fault THEN [sw EXCEPT !.pc = "raised"]
    ELSE IF result = no_more_executables
    THEN [SwarmRecorded(sw, c, result) EXCEPT !.i = @ + 1]
    ELSE IF result = error
    THEN SwarmStepReturns(SwarmRecorded(sw, c, result), error, timeUp)
    ELSE [SwarmRecorded(sw, c, result) EXCEPT !.i = @ + 1, !.finished = FALSE]

\* the clock readings a run can see
TimeUps(sw) == IF sw.inSimulate /\ sw.maxTime > 0 THEN BOOLEAN ELSE {TRUE}

\* swarm.runSimulationStep() called on its own
SwarmRunSimulationStep ==
    /\ sim.pc = "idle"
    /\ swarm.pc = "idle"
    /\ \A c \in Range(ColonyOrder) : cfg.parentSwarm[c]
    /\ swarm' = SwarmStepBegins(swarm)
    /\ UNCHANGED <<cfg, obj, env, global_env, in_global_env, out_global_env,
                   chosenProgramNr, exec_rule_nr, last, sim, wild, parse, snap>>

\* swarm.simulate(maxSteps = ..., maxTime = ...) is called, once
SwarmSimulate(maxSteps, maxTime) ==
    /\ sim.pc = "idle"
    /\ swarm.pc = "idle"
    /\ swarm.ret = "none"
    /\ \A c \in Range(ColonyOrder) : cfg.parentSwarm[c]
    /\ swarm' = SwarmStepBegins(
                    [swarm EXCEPT !.simResult = [c \in Range(ColonyOrder) |-> NotRun],
                                  !.inSimulate = TRUE, !.currentStep = 0,
                                  !.maxSteps = maxSteps, !.maxTime = maxTime,
                                  !.timeUp = FALSE, !.calls = 0])
    /\ UNCHANGED <<cfg, obj, env, global_env, in_global_env, out_global_env,
                   chosenProgramNr, exec_rule_nr, last, sim, wild, parse, snap>>

\* self.simResult[colony_name] of a colony that has no recorded result
SwarmKeyError ==
    /\ swarm.pc = "step"
    /\ swarm.i <= Len(ColonyOrder)
    /\ ColonyOrder[swarm.i] \notin DOMAIN swarm.simResult
    /\ swarm' = [swarm EXCEPT !.pc = "raised"]
    /\ UNCHANGED <<cfg, obj, env, global_env, in_global_env, out_global_env,
                   chosenProgramNr, exec_rule_nr, last, sim, wild, parse, snap>>

\* the loop passes over a colony that is finished
SwarmSkip ==
    /\ swarm.pc = "step"
    /\ swarm.i <= Len(ColonyOrder)
    /\ ColonyOrder[swarm.i] \in DOMAIN swarm.simResult
    /\ SwarmSkips(swarm, ColonyOrder[swarm.i])
    /\ swarm' = [swarm EXCEPT !.i = @ + 1, !.skipped = Append(@, ColonyOrder[swarm.i])]
    /\ UNCHANGED <<cfg, obj, env, global_env, in_global_env, out_global_env,
                   chosenProgramNr, exec_rule_nr, last, sim, wild, parse, snap>>

\* the loop runs one step of a colony that is not finished
SwarmAdvance ==
    /\ swarm.pc = "step"
    /\ swarm.i <= Len(ColonyOrder)
    /\ ColonyOrder[swarm.i] \in DOMAIN swarm.simResult
    /\ ~SwarmSkips(swarm, ColonyOrder[swarm.i])
    /\ Step(ColonyOrder[swarm.i])
    /\ \E timeUp \in TimeUps(swarm) :
          swarm' = SwarmColonyDone(swarm, ColonyOrder[swarm.i], last'.result, timeUp)
    /\ swarm'.currentStep <= MaxCurrentStep
    /\ UNCHANGED <<cfg, sim, wild, parse, snap>>

\* the loop over C is over
SwarmStepEnd ==
    /\ swarm.pc = "step"
    /\ swarm.i > Len(ColonyOrder)
    /\ \E timeUp \in TimeUps(swarm) :
          swarm' = SwarmStepReturns(swarm, SwarmStepResult(swarm.finished), timeUp)
    /\ swarm'.currentStep <= MaxCurrentStep
    /\ UNCHANGED <<cfg, obj, env, global_env, in_global_env, out_global_env,
                   chosenProgramNr, exec_rule_nr, last, sim, wild, parse, snap>>


----------------------------------------------------------------------------
(* getDeepCopyOf of a Pswarm and of a Pcolony.  snap is the object the     *)
(* call returned.  A swarm is named "orig" (the swarm the configuration    *)
(* built) or "copy" (the Pswarm that Pswarm.getDeepCopyOf creates, or the  *)
(* Pswarm given to Pcolony.getDeepCopyOf as parent_swarm); "none" is None. *)
(* The copy holds Counters of its own for obj and env; the swarm           *)
(* environments its rules reach are those of its parentSwarm.              *)

\* no getDeepCopyOf has been called
NoCopy ==
    [kind |-> "none", colonies |-> {}, parent_swarm |-> "none", parentSwarm |-> "none",
     obj |-> <<>>, env |-> <<>>, global_env |-> EmptyCounter,
     in_global_env |-> EmptyCounter, out_global_env |-> EmptyCounter,
     chosenProgramNr |-> <<>>, exec_rule_nr |-> <<>>,
     last |-> [colony |-> "none", result |-> "none", log |-> <<>>],
     origPre |-> <<>>, origPost |-> <<>>, own |-> <<>>]

\* a copy whose colony keeps the parentSwarm of the colony it was made of
CopyParent_KeepsOwn(c, parent_swarm) ==
    IF cfg.parentSwarm[c] THEN "orig" ELSE "none"

\* "if (parent_swarm != None): newColony.parentSwarm = parent_swarm
\*  else: newColony.parentSwarm = self.parentSwarm"
CopyParent(c, parent_swarm) ==
    IF parent_swarm # "none" THEN parent_swarm
    ELSE IF cfg.parentSwarm[c] THEN "orig" ELSE "none"

\* the multisets the rules of the copy sn read and write, w being the
\* multisets of the original: self.obj, self.colony.env and
\* self.colony.parentSwarm.global_env / in_global_env / out_global_env
CopyWorld(sn, w) ==
    [obj |-> sn.obj, env |-> sn.env,
     global_env |-> IF sn.parentSwarm = "orig" THEN w.global_env ELSE sn.global_env,
     in_global_env |-> IF sn.parentSwarm = "orig" THEN w.in_global_env
                       ELSE sn.in_global_env,
     out_global_env |-> IF sn.parentSwarm = "orig" THEN w.out_global_env
                        ELSE sn.out_global_env]

\* the copy of the colonies cs, made with the argument parent_swarm:
\* Counter(self.obj) of every agent, Counter(self.env), the exec_rule_nr of
\* every rule; Agent.__init__ leaves chosenProgramNr = -1.  genv, in_genv
\* and out_genv are the environments of the swarm "copy"
Copied(kind, cs, parent_swarm, genv, in_genv, out_genv) ==
    [NoCopy EXCEPT !.kind = kind, !.colonies = cs, !.parent_swarm = parent_swarm,
                   !.parentSwarm = CopyParent(CHOOSE c \in cs : TRUE, parent_swarm),
                   !.obj = obj, !.env = env,
                   !.global_env = genv, !.in_global_env = in_genv,
                   !.out_global_env = out_genv,
                   !.chosenProgramNr =
                       [c \in Colonies |-> [a \in DOMAIN cfg.programs[c] |-> -1]],
                   !.exec_rule_nr = exec_rule_nr]

\* the copy as returned: own keeps the multisets its rules reach
Returned(sn) == [sn EXCEPT !.own = CopyWorld(sn, World)]

\* swarm.getDeepCopyOf(): Pswarm(self) and copy_init, which reads
\* swarm.simResult[col_name] of every colony of C
SwarmGetDeepCopyOf ==
    /\ sim.pc = "idle"
    /\ swarm.pc = "idle"
    /\ snap.kind = "none"
    /\ \A c \in Range(ColonyOrder) : cfg.parentSwarm[c]
    /\ snap' = IF \E c \in Range(ColonyOrder) : c \notin DOMAIN swarm.simResult
               THEN [snap EXCEPT !.kind = "raised"]
               ELSE Returned(Copied("swarm", Range(ColonyOrder), "copy",
                                    global_env, in_global_env, out_global_env))
    /\ UNCHANGED <<cfg, obj, env, global_env, in_global_env, out_global_env,
                   chosenProgramNr, exec_rule_nr, last, sim, swarm, wild, parse>>

\* colony.getDeepCopyOf(parent_swarm), parent_swarm being None or a Pswarm
\* whose three environments are m
ColonyGetDeepCopyOf(c, parent_swarm, m) ==
    /\ sim.pc = "idle"
    /\ swarm.pc = "idle"
    /\ snap.kind = "none"
    /\ cfg.B[c] # <<>>
    /\ parent_swarm # "none" => cfg.parentSwarm[c]
    /\ snap' = Returned(Copied("colony", {c}, parent_swarm, m, m, m))
    /\ UNCHANGED <<cfg, obj, env, global_env, in_global_env, out_global_env,
                   chosenProgramNr, exec_rule_nr, last, sim, swarm, wild, parse>>

\* the first loop of runSimulationStep of colony c of the copy, whose agents
\* dictionary getDeepCopyOf filled in the order of B
CopySelection(c) ==
    SelectionOf(cfg.B[c],
        [a \in Range(cfg.B[c]) |->
            PossiblePrograms(CopyWorld(snap, World), c, a, snap.exec_rule_nr[c][a])])

\* every way the choseProgram calls of that step can end
CopySelectionOutcomes(c, s) ==
    LET of(a) == IF a \in s.returned
                 THEN ChoseOutcomes(s.sel[a].possiblePrograms)
                 ELSE {[ret |-> FALSE, chosenProgramNr |-> snap.chosenProgramNr[c][a]]}
    IN {out \in [Range(cfg.B[c]) -> UNION {of(a) : a \in Range(cfg.B[c])}] :
           \A a \in Range(cfg.B[c]) : out[a] \in of(a)}

\* the exec_rule_nr the first loop s leaves on the rules of the copy
CopyMarksAfter(c, s) ==
    [a \in Range(cfg.B[c]) |->
        IF a \in s.ran THEN s.sel[a].marks ELSE snap.exec_rule_nr[c][a]]

\* the whole step of colony c of the copy
CopyStepOutcome(c, s, out) ==
    StepRecord(CopyWorld(snap, World), c, s, out, RunnableAgents(cfg.B[c], out),
        [a \in Range(cfg.B[c]) |-> out[a].chosenProgramNr], CopyMarksAfter(c, s),
        StepRun(AfterSelection(CopyWorld(snap, World), c, s), c, s,
            RunnableAgents(cfg.B[c], out),
            [a \in Range(cfg.B[c]) |-> out[a].chosenProgramNr], CopyMarksAfter(c, s)))

\* the multisets of the original after a step of the copy left r: the swarm
\* environments are the ones the copy wrote when its parentSwarm is the
\* original's
OriginalAfter(r) ==
    IF snap.parentSwarm = "orig"
    THEN [World EXCEPT !.global_env = r.w.global_env,
                       !.in_global_env = r.w.in_global_env,
                       !.out_global_env = r.w.out_global_env]
    ELSE World

\* the copy after its step left r; origPre and origPost keep the multisets
\* of the original before and after the step
CopyAfter(c, r) ==
    [snap EXCEPT !.obj = r.w.obj, !.env = r.w.env,
                 !.global_env = IF snap.parentSwarm = "orig" THEN @ ELSE r.w.global_env,
                 !.in_global_env = IF snap.parentSwarm = "orig" THEN @
                                   ELSE r.w.in_global_env,
                 !.out_global_env = IF snap.parentSwarm = "orig" THEN @
                                    ELSE r.w.out_global_env,
                 !.chosenProgramNr[c] = r.chosen,
                 !.exec_rule_nr[c] = r.marks,
                 !.last = [colony |-> c, result |-> r.last.result, log |-> r.last.log],
                 !.origPre = World, !.origPost = OriginalAfter(r), !.own = r.w]

\* runSimulationStep() of colony c of the copy
CopyRunSimulationStep(c) ==
    /\ sim.pc = "idle"
    /\ swarm.pc = "idle"
    /\ snap.kind \in {"colony", "swarm"}
    /\ c \in snap.colonies
    /\ \E s \in {CopySelection(c)} : \E out \in CopySelectionOutcomes(c, s) :
          \E r \in {CopyStepOutcome(c, s, out)} :
              /\ Bounded(r.w)
              /\ snap' = CopyAfter(c, r)
              /\ global_env' = OriginalAfter(r).global_env
              /\ in_global_env' = OriginalAfter(r).in_global_env
              /\ out_global_env' = OriginalAfter(r).out_global_env
    /\ UNCHANGED <<cfg, obj, env, chosenProgramNr, exec_rule_nr, last, sim, swarm,
                   wild, parse>>


----------------------------------------------------------------------------
(* Wildcard expansion: processObjectCounterWildcards and                   *)
(* Agent.processWildcards.  A name is the sequence of its characters, with *)
(* the wildcard %id as one element; a Counter that is iterated is the      *)
(* sequence of its [item, count] entries in the order of insertion.        *)

\* card in item
Contains(item, card) == card \in Range(item)

\* item.replace(card, by)
RECURSIVE Replace(_, _, _)
Replace(item, card, by) ==
    IF item = <<>> THEN <<>>
    ELSE (IF Head(item) = card THEN by ELSE <<Head(item)>>)
            \o Replace(Tail(item), card, by)

\* counter[k] = v
Store(m, k, v) == [x \in (DOMAIN m) \cup {k} |-> IF x = k THEN v ELSE m[x]]

\* "for suffix in suffixList: newCounter[item.replace("*", suffix)] = objectCounter[item]"
RECURSIVE SuffixesStored(_, _, _, _, _)
SuffixesStored(newCounter, item, count, suffixList, i) ==
    IF i > Len(suffixList) THEN newCounter
    ELSE SuffixesStored(Store(newCounter, Replace(item, "*", suffixList[i]), count),
                        item, count, suffixList, i + 1)

\* the if / else on '%id' that follows the test of '*'
ItemStored(newCounter, item, count, myId) ==
    IF Contains(item, "%id")
    THEN Store(newCounter, Replace(item, "%id", myId), count)
    ELSE Store(newCounter, item, count)

\* the loop "for item in objectCounter", from entry i on
RECURSIVE ItemsProcessed(_, _, _, _, _)
ItemsProcessed(objectCounter, suffixList, myId, i, newCounter) ==
    IF i > Len(objectCounter) THEN newCounter
    ELSE ItemsProcessed(objectCounter, suffixList, myId, i + 1,
            ItemStored(IF Contains(objectCounter[i].item, "*")
                       THEN SuffixesStored(newCounter, objectCounter[i].item,
                                           objectCounter[i].count, suffixList, 1)
                       ELSE newCounter,
                       objectCounter[i].item, objectCounter[i].count, myId))

ProcessObjectCounterWildcards(objectCounter, suffixList, myId) ==
    ItemsProcessed(objectCounter, suffixList, myId, 1, EmptyCounter)

\* Rule.hasWildcards(card)
RuleHasWildcards(rule, card) ==
    \/ Contains(rule.lhs, card)
    \/ Contains(rule.rhs, card)
    \/ /\ rule.main_type = conditional
       /\ Contains(rule.alt_lhs, card) \/ Contains(rule.alt_rhs, card)

\* Program.hasWildcards(card)
ProgramHasWildcards(program, card) ==
    \E i \in DOMAIN program : RuleHasWildcards(program[i], card)

\* a replacement that leaves the sides after the '/' alone
RuleReplaced_MainOnly(rule, card, by) ==
    IF RuleHasWildcards(rule, card)
    THEN [rule EXCEPT !.lhs = Replace(@, card, by), !.rhs = Replace(@, card, by)]
    ELSE rule

\* "if (rule.hasWildcards(card)): rule.lhs = rule.lhs.replace(card, by) ..."
RuleReplaced(rule, card, by) ==
    IF RuleHasWildcards(rule, card)
    THEN [rule EXCEPT !.lhs = Replace(@, card, by), !.rhs = Replace(@, card, by),
                      !.alt_lhs = Replace(@, card, by), !.alt_rhs = Replace(@, card, by)]
    ELSE rule

\* the deep copy of a program after the loop over its rules
ProgramReplaced(program, card, by) ==
    [i \in DOMAIN program |-> RuleReplaced(program[i], card, by)]

\* list.remove(x): the list without the first element equal to x
RECURSIVE Removed(_, _)
Removed(list, x) ==
    IF list = <<>> THEN <<>>
    ELSE IF Head(list) = x THEN Tail(list)
    ELSE <<Head(list)>> \o Removed(Tail(list), x)

\* the first loop "for program in self.programs[:]", from program i of the
\* copy on: the program with '%id' replaced is appended, the old one removed
RECURSIVE IdsReplaced(_, _, _, _)
IdsReplaced(copy, myId, i, programs) ==
    IF i > Len(copy) THEN programs
    ELSE IdsReplaced(copy, myId, i + 1,
            IF ProgramHasWildcards(copy[i], "%id")
            THEN Removed(Append(programs, ProgramReplaced(copy[i], "%id", myId)), copy[i])
            ELSE programs)

\* "for suffix in suffixList: ... self.programs.append(newProgram)"
RECURSIVE ClonesAppended(_, _, _, _)
ClonesAppended(programs, program, suffixList, k) ==
    IF k > Len(suffixList) THEN programs
    ELSE ClonesAppended(Append(programs, ProgramReplaced(program, "*", suffixList[k])),
                        program, suffixList, k + 1)

\* the second loop "for program in self.programs[:]", from program i of the
\* copy on
RECURSIVE StarsReplaced(_, _, _, _)
StarsReplaced(copy, suffixList, i, programs) ==
    IF i > Len(copy) THEN programs
    ELSE StarsReplaced(copy, suffixList, i + 1,
            IF ProgramHasWildcards(copy[i], "*")
            THEN Removed(ClonesAppended(programs, copy[i], suffixList, 1), copy[i])
            ELSE programs)

\* the two loops of Agent.processWildcards over self.programs
StarsAfterIds(programs, suffixList) == StarsReplaced(programs, suffixList, 1, programs)

ProgramsProcessed(programs, suffixList, myId) ==
    StarsAfterIds(IdsReplaced(programs, myId, 1, programs), suffixList)

\* processObjectCounterWildcards(objectCounter, suffixList, myId) is called
\* and returns
CallProcessObjectCounterWildcards ==
    /\ wild.pc = "called"
    /\ wild.fn = "processObjectCounterWildcards"
    /\ wild' = [wild EXCEPT !.pc = "returned",
                            !.newCounter = ProcessObjectCounterWildcards(
                                wild.objectCounter, wild.suffixList, wild.myId)]
    /\ UNCHANGED <<cfg, obj, env, global_env, in_global_env, out_global_env,
                   chosenProgramNr, exec_rule_nr, last, sim, swarm, parse, snap>>

\* agent.processWildcards(suffixList, myId) is called and returns
AgentProcessWildcards ==
    /\ wild.pc = "called"
    /\ wild.fn = "Agent.processWildcards"
    /\ wild' = [wild EXCEPT !.pc = "returned",
                            !.newCounter = ProcessObjectCounterWildcards(
                                wild.objectCounter, wild.suffixList, wild.myId),
                            !.newPrograms = ProgramsProcessed(
                                wild.programs, wild.suffixList, wild.myId)]
    /\ UNCHANGED <<cfg, obj, env, global_env, in_global_env, out_global_env,
                   chosenProgramNr, exec_rule_nr, last, sim, swarm, parse, snap>>


----------------------------------------------------------------------------
(* process_tokens, for the statements of a colony and of a swarm that      *)
(* declare values, lists and environments (the agents of a colony and the  *)
(* colonies of a swarm are parsed by further calls that are not followed). *)
(* A token is what tokenize yields: its type and its value.                *)

Tok(type, value) == [type |-> type, value |-> value]

\* the block process_tokens returns: where it stopped and what it built
Block(index, result) == [index |-> index, result |-> result]

\* parent is a list: every ID is appended, up to the END token
RECURSIVE ProcessList(_, _, _)
ProcessList(tokens, index, result) ==
    IF index > Len(tokens) \/ tokens[index].type = "END" THEN Block(index, result)
    ELSE ProcessList(tokens, index + 1,
            IF tokens[index].type = "ID" THEN Append(result, tokens[index].value)
            ELSE result)

\* parent is a str: the result is the last ID before the END token
RECURSIVE ProcessStr(_, _, _)
ProcessStr(tokens, index, result) ==
    IF index > Len(tokens) \/ tokens[index].type = "END" THEN Block(index, result)
    ELSE ProcessStr(tokens, index + 1,
            IF tokens[index].type = "ID" THEN tokens[index].value ELSE result)

\* int(token.value)
IntOf(value) ==
    CASE value = "0" -> 0 [] value = "1" -> 1 [] value = "2" -> 2 [] value = "3" -> 3

\* parent is an int: the result is the last NUMBER before the END token
RECURSIVE ProcessInt(_, _, _)
ProcessInt(tokens, index, result) ==
    IF index > Len(tokens) \/ tokens[index].type = "END" THEN Block(index, result)
    ELSE ProcessInt(tokens, index + 1,
            IF tokens[index].type = "NUMBER" THEN IntOf(tokens[index].value) ELSE result)

\* "index, result.<field> = process_tokens(...)", inner being the block
Assigned(result, field, inner) ==
    Block(inner.index, [result EXCEPT ![field] = inner.result])

\* "if (e not in objects): objects.append(e)"
WithElementary(objects, e) ==
    IF e \in Range(objects) THEN objects ELSE Append(objects, e)

\* "result.<field> = collections.Counter(objects)" after that insertion
EnvAssigned(result, field, inner, e) ==
    Block(inner.index, [result EXCEPT ![field] = CounterOf(WithElementary(inner.result, e))])

\* Pcolony.__init__
NewPcolony ==
    [type |-> "Pcolony", A |-> <<>>, e |-> "e", f |-> "f", n |-> 0,
     env |-> EmptyCounter, B |-> <<>>]

\* Pswarm.__init__
NewPswarm ==
    [type |-> "Pswarm", C |-> <<>>, global_env |-> EmptyCounter,
     in_global_env |-> EmptyCounter, out_global_env |-> EmptyCounter]

\* parent is a Pcolony and the token at index is ASSIGN: the statement that
\* the previous token names
ColonyAssign(tokens, index, name, result) ==
    IF name = "A" THEN Assigned(result, "A", ProcessList(tokens, index + 1, result.A))
    ELSE IF name = "e" THEN Assigned(result, "e", ProcessStr(tokens, index + 1, result.e))
    ELSE IF name = "f" THEN Assigned(result, "f", ProcessStr(tokens, index + 1, result.f))
    ELSE IF name = "n" THEN Assigned(result, "n", ProcessInt(tokens, index + 1, result.n))
    ELSE IF name = "env"
    THEN EnvAssigned(result, "env", ProcessList(tokens, index + 1, <<>>), result.e)
    ELSE IF name = "B" THEN Assigned(result, "B", ProcessList(tokens, index + 1, result.B))
    ELSE Block(index, result)

\* parent is a Pswarm and the token at index is ASSIGN
SwarmAssign(tokens, index, name, result) ==
    IF name \in {"global_env", "in_global_env", "out_global_env"}
    THEN EnvAssigned(result, name, ProcessList(tokens, index + 1, <<>>), "e")
    ELSE IF name = "C" THEN Assigned(result, "C", ProcessList(tokens, index + 1, result.C))
    ELSE Block(index, result)

\* the loop "while (index < len(tokens))" of a Pcolony or a Pswarm, from
\* the token at index on; after a statement it goes on behind the END token
\* at which the statement's block stopped
RECURSIVE ProcessBody(_, _, _, _)
StatementDone(tokens, token, inner) ==
    ProcessBody(tokens, inner.index + 1, token, inner.result)

ProcessBody(tokens, index, prev_token, result) ==
    IF index > Len(tokens) THEN Block(index, result)
    ELSE IF tokens[index].type = "ASSIGN"
    THEN StatementDone(tokens, tokens[index],
            IF result.type = "Pswarm"
            THEN SwarmAssign(tokens, index, prev_token.value, result)
            ELSE ColonyAssign(tokens, index, prev_token.value, result))
    ELSE IF tokens[index].type = "END" THEN Block(index, result)
    ELSE ProcessBody(tokens, index + 1, tokens[index], result)

\* process_tokens(tokens, None, 0) on "name = { ... };": a Pswarm when the
\* name is pswarm, a Pcolony otherwise
ProcessTokens(tokens) ==
    ProcessBody(tokens, 3, tokens[3],
        IF tokens[1].value = "pswarm" THEN NewPswarm ELSE NewPcolony).result

\* readInputFile: the tokens are processed
ReadInputFile ==
    /\ parse.pc = "called"
    /\ parse' = [parse EXCEPT !.pc = "returned", !.result = ProcessTokens(parse.tokens)]
    /\ UNCHANGED <<cfg, obj, env, global_env, in_global_env, out_global_env,
                   chosenProgramNr, exec_rule_nr, last, sim, swarm, wild, snap>>


----------------------------------------------------------------------------
(* The colonies the model is run on.  Two colonies c1 and c2, each with up *)
(* to two agents ag1 and ag2 of capacity n = 2.  A configuration fixes,    *)
(* for each colony, its e, its parentSwarm, its agents in the order of the *)
(* agents dictionary and their programs, and the multisets the run starts  *)
(* from.                                                                   *)

\* the multiset with na a's, nb b's and ne e's (a Counter stores no zero)
Bag3(na, nb, ne) ==
    LET n(k) == CASE k = "a" -> na [] k = "b" -> nb [] k = "e" -> ne
    IN [k \in {x \in Objects : n(x) > 0} |-> n(k)]

\* the obj of an agent of capacity 2
ObjChoices == {Bag3(2, 0, 0), Bag3(1, 1, 0), Bag3(0, 2, 0), Bag3(1, 0, 1)}

\* an environment: one e (the parser's insertion) and a few a's and b's
EnvChoices == {Bag3(0, nb, 1) : nb \in 0 .. MaxCopies} \cup {Bag3(1, 1, 1)}

\* the objects a colony may configure as its e
EChoices == {"e", "b"}

\* every non-conditional rule
SimpleRules == {Rule(t, l, r) : t \in SimpleTypes, l \in Objects, r \in Objects}

\* conditional rules: each pair of rule types, over a few operands
CondRules ==
    {CondRule(t, "a", r, at, al, ar) :
        t \in {evolution, communication, exteroceptive},
        r \in {"b", "e"},
        at \in {evolution, communication, exteroceptive},
        al \in {"a", "b"},
        ar \in {"a", "e"}}

\* the second rule of a lone agent's program
SecondRules ==
    {Rule(evolution, "a", "a"), Rule(communication, "a", "e"),
     Rule(communication, "b", "a")}

\* programs of agents that share a colony env
SharingPrograms ==
    {<<Rule(communication, "a", "b"), Rule(evolution, "a", "a")>>,
     <<Rule(communication, "a", "b"), Rule(communication, "a", "b")>>,
     <<Rule(evolution, "b", "a"), Rule(communication, "a", "e")>>,
     <<CondRule(communication, "a", "b", evolution, "a", "b"), Rule(evolution, "a", "a")>>,
     <<Rule(communication, "b", "a"), Rule(evolution, "b", "b")>>,
     <<Rule(evolution, "a", "a"), Rule(evolution, "a", "a")>>,
     <<Rule(communication, "a", "e"), Rule(communication, "a", "e")>>}

\* programs of an agent that holds a b: the first rule hands the b to the
\* colony env and the second rule takes a b from it
ReturningPrograms ==
    {<<Rule(communication, "b", "e"), Rule(communication, "a", "b")>>,
     <<Rule(communication, "b", "a"), Rule(communication, "a", "b")>>}

\* programs of agents of two colonies that share the swarm environments
SwarmPrograms ==
    {<<Rule(exteroceptive, "a", "b"), Rule(evolution, "a", "a")>>,
     <<Rule(exteroceptive, "a", "e"), Rule(evolution, "a", "a")>>,
     <<Rule(exteroceptive, "b", "a"), Rule(communication, "a", "e")>>,
     <<Rule(in_exteroceptive, "a", "b"), Rule(out_exteroceptive, "a", "e")>>}

\* programs of the colonies of a swarm that is run as a whole: the second
\* colony can hand the first one the object its program waits for
SwarmRunPrograms ==
    SwarmPrograms \cup {<<Rule(exteroceptive, "a", "a"), Rule(evolution, "a", "a")>>}

NoAgents == [a \in {} |-> <<>>]

\* the keys of result.agents, in the order the dictionary keeps them: the
\* block of each name of B is stored when it is met in the input
RECURSIVE AgentsStored(_, _, _)
AgentsStored(B, blocks, acc) ==
    IF blocks = <<>> THEN acc
    ELSE AgentsStored(B, Tail(blocks),
            IF Head(blocks) \in Range(B) /\ Head(blocks) \notin Range(acc)
            THEN Append(acc, Head(blocks))
            ELSE acc)

\* Rule(): exec_rule_nr = RuleExecOption.none
NoMarks(programs) ==
    [c \in Colonies |-> [a \in DOMAIN programs[c] |->
        [p \in DOMAIN programs[c][a] |->
            [r \in DOMAIN programs[c][a][p] |-> none]]]]

\* a lone agent ag1 in c1 with one program of two rules; c2 has no agents;
\* all environments start equal
LoneAgent(e1, r1, r2, o, m) ==
     [e |-> [c1 |-> e1, c2 |-> "e"],
      n |-> [c1 |-> 2, c2 |-> 2],
      parentSwarm |-> [c1 |-> TRUE, c2 |-> TRUE],
      B |-> [c1 |-> <<"ag1">>, c2 |-> <<>>],
      agents |-> [c1 |-> <<"ag1">>, c2 |-> <<>>],
      programs |-> [c1 |-> [a \in {"ag1"} |-> <<<<r1, r2>>>>], c2 |-> NoAgents],
      init |-> [obj |-> [c1 |-> [a \in {"ag1"} |-> o], c2 |-> NoAgents],
                env |-> [c1 |-> m, c2 |-> Bag3(0, 0, 1)],
                global_env |-> m, in_global_env |-> m, out_global_env |-> m]]

\* a lone agent in a colony that was built on its own: Pcolony.__init__
\* leaves parentSwarm = None, and there are no swarm environments
StandAlone(r1, r2, o, m) ==
     [e |-> [c1 |-> "e", c2 |-> "e"],
      n |-> [c1 |-> 2, c2 |-> 2],
      parentSwarm |-> [c1 |-> FALSE, c2 |-> FALSE],
      B |-> [c1 |-> <<"ag1">>, c2 |-> <<>>],
      agents |-> [c1 |-> <<"ag1">>, c2 |-> <<>>],
      programs |-> [c1 |-> [a \in {"ag1"} |-> <<<<r1, r2>>>>], c2 |-> NoAgents],
      init |-> [obj |-> [c1 |-> [a \in {"ag1"} |-> o], c2 |-> NoAgents],
                env |-> [c1 |-> m, c2 |-> Bag3(0, 0, 1)],
                global_env |-> EmptyCounter, in_global_env |-> EmptyCounter,
                out_global_env |-> EmptyCounter]]

\* a lone agent ag1 in a colony c1 of capacity n = 2, with one program of a
\* single rule
ShortProgram(r1, o, m) ==
     [e |-> [c1 |-> "e", c2 |-> "e"],
      n |-> [c1 |-> 2, c2 |-> 2],
      parentSwarm |-> [c1 |-> TRUE, c2 |-> TRUE],
      B |-> [c1 |-> <<"ag1">>, c2 |-> <<>>],
      agents |-> [c1 |-> <<"ag1">>, c2 |-> <<>>],
      programs |-> [c1 |-> [a \in {"ag1"} |-> <<<<r1>>>>], c2 |-> NoAgents],
      init |-> [obj |-> [c1 |-> [a \in {"ag1"} |-> o], c2 |-> NoAgents],
                env |-> [c1 |-> m, c2 |-> Bag3(0, 0, 1)],
                global_env |-> m, in_global_env |-> m, out_global_env |-> m]]

\* two agents in a stand-alone colony c1 with B = {ag1, ag2}, whose blocks
\* stand in the input in the given order; ag1 has one or two programs
SharedEnv(e1, order, ps1, p2, o, m) ==
     [e |-> [c1 |-> e1, c2 |-> "e"],
      n |-> [c1 |-> 2, c2 |-> 2],
      parentSwarm |-> [c1 |-> FALSE, c2 |-> FALSE],
      B |-> [c1 |-> <<"ag1", "ag2">>, c2 |-> <<>>],
      agents |-> [c1 |-> AgentsStored(<<"ag1", "ag2">>, order, <<>>), c2 |-> <<>>],
      programs |-> [c1 |-> [ag1 |-> ps1, ag2 |-> <<p2>>], c2 |-> NoAgents],
      init |-> [obj |-> [c1 |-> [ag1 |-> o, ag2 |-> Bag3(2, 0, 0)], c2 |-> NoAgents],
                env |-> [c1 |-> m, c2 |-> Bag3(0, 0, 1)],
                global_env |-> EmptyCounter, in_global_env |-> EmptyCounter,
                out_global_env |-> EmptyCounter]]

\* two colonies of one swarm, one agent each
SharedSwarm(e1, e2, p1, p2, m) ==
     [e |-> [c1 |-> e1, c2 |-> e2],
      n |-> [c1 |-> 2, c2 |-> 2],
      parentSwarm |-> [c1 |-> TRUE, c2 |-> TRUE],
      B |-> [c1 |-> <<"ag1">>, c2 |-> <<"ag1">>],
      agents |-> [c1 |-> <<"ag1">>, c2 |-> <<"ag1">>],
      programs |-> [c1 |-> [a \in {"ag1"} |-> <<p1>>], c2 |-> [a \in {"ag1"} |-> <<p2>>]],
      init |-> [obj |-> [c1 |-> [a \in {"ag1"} |-> Bag3(2, 0, 0)],
                         c2 |-> [a \in {"ag1"} |-> Bag3(2, 0, 0)]],
                env |-> [c1 |-> Bag3(0, 1, 1), c2 |-> Bag3(0, 1, 1)],
                global_env |-> m, in_global_env |-> m, out_global_env |-> m]]

\* a swarm whose first colony has two agents that compete for the b's of
\* its env, and whose second colony has one agent
SwarmOfTwo(nb, p2, m) ==
     [e |-> [c1 |-> "e", c2 |-> "e"],
      n |-> [c1 |-> 2, c2 |-> 2],
      parentSwarm |-> [c1 |-> TRUE, c2 |-> TRUE],
      B |-> [c1 |-> <<"ag1", "ag2">>, c2 |-> <<"ag1">>],
      agents |-> [c1 |-> <<"ag1", "ag2">>, c2 |-> <<"ag1">>],
      programs |-> [c1 |-> [a \in {"ag1", "ag2"} |->
                               <<<<Rule(communication, "a", "b"), Rule(evolution, "a", "a")>>>>],
                    c2 |-> [a \in {"ag1"} |-> <<p2>>]],
      init |-> [obj |-> [c1 |-> [a \in {"ag1", "ag2"} |-> Bag3(2, 0, 0)],
                         c2 |-> [a \in {"ag1"} |-> Bag3(2, 0, 0)]],
                env |-> [c1 |-> Bag3(0, nb, 1), c2 |-> Bag3(0, 1, 1)],
                global_env |-> m, in_global_env |-> m, out_global_env |-> m]]

\* the program lists of ag1 in SharedEnv: one or two programs
ProgramLists ==
    {<<p>> : p \in SharingPrograms}
        \cup {<<pq[1], pq[2]>> :
                 pq \in {x \in SharingPrograms \X SharingPrograms : x[1] # x[2]}}

NoStep ==
    [colony |-> "none", result |-> "none", pre |-> <<>>, possiblePrograms |-> <<>>,
     returned |-> {}, out |-> <<>>, runnableAgents |-> <<>>, log |-> <<>>]

NoSimulate ==
    [pc |-> "idle", colony |-> "none", currentStep |-> 0, maxSteps |-> -1,
     maxTime |-> -1, ret |-> "none", timeUp |-> FALSE, calls |-> 0]

\* Pswarm.__init__: simResult = {}; no call of the swarm is running
NoSwarm ==
    [pc |-> "idle", simResult |-> NoResults, inSimulate |-> FALSE, i |-> 1,
     finished |-> TRUE, stepResult |-> "none", prior |-> NoResults, advanced |-> <<>>,
     results |-> <<>>, skipped |-> <<>>, currentStep |-> 0, maxSteps |-> -1,
     maxTime |-> -1, timeUp |-> FALSE, ret |-> "none", calls |-> 0,
     tested |-> NoSwarmTests, lastStep |-> NoSwarmStep]

\* no wildcard expansion has been called
NoWild ==
    [pc |-> "idle", fn |-> "none", objectCounter |-> <<>>, programs |-> <<>>,
     suffixList |-> <<>>, myId |-> <<>>, newCounter |-> EmptyCounter,
     newPrograms |-> <<>>]

\* no process_tokens has been called
NoParse == [pc |-> "idle", tokens |-> <<>>, result |-> "none"]

\* the state a configuration starts in: Agent.__init__ sets chosenProgramNr = -1
Built(k) ==
    /\ cfg = k
    /\ obj = k.init.obj
    /\ env = k.init.env
    /\ global_env = k.init.global_env
    /\ in_global_env = k.init.in_global_env
    /\ out_global_env = k.init.out_global_env
    /\ chosenProgramNr = [c \in Colonies |-> [a \in DOMAIN k.programs[c] |-> -1]]
    /\ exec_rule_nr = NoMarks(k.programs)
    /\ last = NoStep
    /\ sim = NoSimulate
    /\ swarm = NoSwarm
    /\ snap = NoCopy

\* ... with no wildcard expansion and no parse under way
Start(k) ==
    /\ Built(k)
    /\ wild = NoWild
    /\ parse = NoParse

Init ==
    \/ \E e1 \in EChoices, r1 \in SimpleRules \cup CondRules, r2 \in SecondRules,
          o \in ObjChoices, m \in EnvChoices :
            Start(LoneAgent(e1, r1, r2, o, m))
    \/ \E e1 \in EChoices, order \in {<<"ag1", "ag2">>, <<"ag2", "ag1">>},
          ps1 \in ProgramLists, p2 \in SharingPrograms,
          m \in EnvChoices :
            Start(SharedEnv(e1, order, ps1, p2, Bag3(2, 0, 0), m))
    \/ \E e1 \in EChoices, e2 \in EChoices, p1 \in SwarmPrograms,
          p2 \in SwarmPrograms, m \in EnvChoices :
            Start(SharedSwarm(e1, e2, p1, p2, m))
    \/ \E r1 \in SecondRules, o \in ObjChoices, m \in EnvChoices :
            Start(ShortProgram(r1, o, m))
    \/ \E r1 \in SimpleRules \cup CondRules, r2 \in SecondRules,
          o \in ObjChoices, m \in EnvChoices :
            Start(StandAlone(r1, r2, o, m))
    \/ \E e1 \in EChoices, order \in {<<"ag1", "ag2">>, <<"ag2", "ag1">>},
          p1 \in ReturningPrograms, p2 \in SharingPrograms, m \in EnvChoices :
            Start(SharedEnv(e1, order, <<p1>>, p2, Bag3(1, 1, 0), m))

Next == \E c \in Colonies : RunSimulationStep(c)

Spec == Init /\ [][Next]_vars

\* runs of Pcolony.simulate on a stand-alone colony of two agents
InitSim ==
    \E e1 \in EChoices, p1 \in SharingPrograms, p2 \in SharingPrograms, m \in EnvChoices :
        Start(SharedEnv(e1, <<"ag1", "ag2">>, <<p1>>, p2, Bag3(2, 0, 0), m))

\* the maxSteps and maxTime arguments: the default -1 (no limit) or a limit
StepLimits == {-1} \cup (1 .. MaxStepLimit)
TimeLimits == {-1, 1}

NextSim ==
    \/ \E c \in Colonies, maxSteps \in StepLimits, maxTime \in TimeLimits :
          Simulate(c, maxSteps, maxTime)
    \/ SimulateIteration

SpecSim == InitSim /\ [][NextSim]_vars

\* the names given to a wildcard expansion
WildNames == {<<"e">>, <<"d", "0">>, <<"d", "*">>, <<"c", "%id">>, <<"d", "*", "%id">>}

\* the suffix lists: the first k of the suffixes 0, 1, 2, 3
SuffixLists == {SubSeq(<<<<"0">>, <<"1">>, <<"2">>, <<"3">>>>, 1, k) : k \in 0 .. MaxWild}

\* a Counter of names in the order of insertion: its keys are distinct
CounterChoices ==
    {oc \in UNION {[1 .. n -> [item : WildNames, count : 1 .. MaxCopies]] : n \in 0 .. MaxWild} :
        \A i \in DOMAIN oc : \A j \in DOMAIN oc : i # j => oc[i].item # oc[j].item}

\* a rule whose sides are names; Rule.__init__: alt_lhs = alt_rhs = ''
RuleOfNames(t, l, r) ==
    [main_type |-> t, type |-> t, lhs |-> l, rhs |-> r,
     alt_type |-> "0", alt_lhs |-> <<>>, alt_rhs |-> <<>>]

WildRules ==
    {RuleOfNames(evolution, <<"e">>, r) : r \in WildNames \ {<<"d", "0">>}}
        \cup {CondRule(communication, <<"e">>, <<"e">>, evolution, <<"e">>, r) :
                 r \in {<<"d", "*">>, <<"c", "%id">>}}

\* programs of one rule and of two rules
WildPrograms ==
    {<<r>> : r \in WildRules}
        \cup {<<RuleOfNames(evolution, <<"e">>, <<"e">>), r>> : r \in WildRules}

WildProgramLists == UNION {[1 .. n -> WildPrograms] : n \in 1 .. MaxWild}

\* fn(objectCounter / programs, suffixList, myId) has been called
WildCall(fn, objectCounter, programs, suffixList) ==
    [NoWild EXCEPT !.pc = "called", !.fn = fn, !.objectCounter = objectCounter,
                   !.programs = programs, !.suffixList = suffixList, !.myId = <<"5">>]

\* calls of the wildcard expansions, on a multiset and on an agent
InitWild ==
    /\ Built(LoneAgent("e", Rule(evolution, "a", "a"), Rule(evolution, "a", "a"),
                       Bag3(2, 0, 0), Bag3(0, 0, 1)))
    /\ parse = NoParse
    /\ \/ \E objectCounter \in CounterChoices, suffixList \in SuffixLists :
             wild = WildCall("processObjectCounterWildcards", objectCounter, <<>>, suffixList)
       \/ \E programs \in WildProgramLists, suffixList \in SuffixLists,
             item \in {<<"e">>, <<"d", "*">>} :
             wild = WildCall("Agent.processWildcards",
                             <<[item |-> item, count |-> 2]>>, programs, suffixList)

NextWild ==
    \/ CallProcessObjectCounterWildcards
    \/ AgentProcessWildcards

SpecWild == InitWild /\ [][NextWild]_vars

\* the tokens of "{a, b}"
RECURSIVE ItemTokens(_)
ItemTokens(objects) ==
    IF objects = <<>> THEN <<>>
    ELSE IF Len(objects) = 1 THEN <<Tok("ID", objects[1])>>
    ELSE <<Tok("ID", objects[1]), Tok("COLUMN", ",")>> \o ItemTokens(Tail(objects))

ListTokens(objects) ==
    <<Tok("L_CURLY_BRACE", "{")>> \o ItemTokens(objects) \o <<Tok("R_CURLY_BRACE", "}")>>

\* the tokens of "name = body;"
Statement(name, body) ==
    <<Tok("ID", name), Tok("ASSIGN", "=")>> \o body \o <<Tok("END", ";")>>

\* the tokens of "name = { statements };"
Source(name, statements) ==
    Statement(name, <<Tok("L_CURLY_BRACE", "{")>> \o statements
                        \o <<Tok("R_CURLY_BRACE", "}")>>)

\* the object lists that an input file declares as an environment
ObjectLists == UNION {[1 .. n -> Objects] : n \in 0 .. MaxCopies}

\* the texts of a colony: "env = {...};" alone, after "e = x;" or before it
ColonySources ==
    {Source("pi", Statement("env", ListTokens(objects)) \o Statement("n", <<Tok("NUMBER", "2")>>)) :
        objects \in ObjectLists}
    \cup {Source("pi", Statement("e", <<Tok("ID", x)>>) \o Statement("env", ListTokens(objects))) :
             x \in EChoices, objects \in ObjectLists}
    \cup {Source("pi", Statement("env", ListTokens(objects)) \o Statement("e", <<Tok("ID", x)>>)) :
             x \in EChoices, objects \in ObjectLists}

\* the texts of a swarm that declares two of its environments
SwarmSources ==
    {Source("pswarm", Statement("global_env", ListTokens(g))
                          \o Statement("in_global_env", ListTokens(i))
                          \o Statement("C", ListTokens(<<>>))) :
        g \in ObjectLists, i \in ObjectLists}

\* readInputFile is called on the text of a colony or of a swarm
InitParse ==
    /\ Built(LoneAgent("e", Rule(evolution, "a", "a"), Rule(evolution, "a", "a"),
                       Bag3(2, 0, 0), Bag3(0, 0, 1)))
    /\ wild = NoWild
    /\ \E tokens \in ColonySources \cup SwarmSources :
          parse = [pc |-> "called", tokens |-> tokens, result |-> "none"]

NextParse == ReadInputFile

SpecParse == InitParse /\ [][NextParse]_vars

\* runs of a swarm of two colonies: Pswarm.simulate, and
\* Pswarm.runSimulationStep called on its own
InitSwarm ==
    \/ \E e1 \in EChoices, e2 \in EChoices, p1 \in SwarmRunPrograms,
          p2 \in SwarmRunPrograms, m \in EnvChoices :
            Start(SharedSwarm(e1, e2, p1, p2, m))
    \/ \E nb \in 1 .. MaxCopies, p2 \in SwarmRunPrograms, m \in EnvChoices :
            Start(SwarmOfTwo(nb, p2, m))

NextSwarm ==
    \/ SwarmRunSimulationStep
    \/ \E maxSteps \in StepLimits, maxTime \in TimeLimits :
          SwarmSimulate(maxSteps, maxTime)
    \/ SwarmKeyError
    \/ SwarmSkip
    \/ SwarmAdvance
    \/ SwarmStepEnd

SpecSwarm == InitSwarm /\ [][NextSwarm]_vars

\* programs of the colonies of a swarm of which a copy is made: the second
\* one stays applicable to an agent that holds an a and an e
CopyPrograms ==
    {<<Rule(exteroceptive, "a", "b"), Rule(evolution, "e", "a")>>,
     <<Rule(exteroceptive, "a", "e"), Rule(evolution, "e", "a")>>}

\* two colonies of one swarm, one agent each, that holds an a and an e
SwarmToCopy(p1, p2, m) ==
    [SharedSwarm("e", "e", p1, p2, m) EXCEPT
        !.init.obj = [c \in Colonies |-> [a \in {"ag1"} |-> Bag3(1, 0, 1)]]]

\* a swarm of two colonies or a stand-alone colony, of which a copy is made
\* at some point of its run
InitCopy ==
    \/ \E p1 \in CopyPrograms, p2 \in CopyPrograms, m \in EnvChoices :
            Start(SwarmToCopy(p1, p2, m))
    \/ \E m \in EnvChoices :
            Start(StandAlone(Rule(communication, "a", "b"), Rule(evolution, "a", "a"),
                             Bag3(2, 0, 0), m))

NextCopy ==
    \/ \E c \in Colonies : RunSimulationStep(c)
    \/ SwarmSimulate(1, -1)
    \/ SwarmSkip
    \/ SwarmAdvance
    \/ SwarmStepEnd
    \/ SwarmGetDeepCopyOf
    \/ \E c \in Colonies, parent_swarm \in {"none", "copy"} :
          ColonyGetDeepCopyOf(c, parent_swarm, Bag3(0, 1, 1))
    \/ \E c \in Colonies : CopyRunSimulationStep(c)

SpecCopy == InitCopy /\ [][NextCopy]_vars

(* The two drivers as running programs: a loop that has started a step     *)
(* goes on to run it, test the limits and start the next one.  The colony  *)
(* c1 has one agent with a program of one rule, among them the program     *)
(* < a -> a > that stays applicable forever; c2 has no agent.              *)
InitLive ==
    \E r1 \in {Rule(evolution, "a", "a"), Rule(communication, "a", "e")} :
        Start(ShortProgram(r1, Bag3(2, 0, 0), Bag3(0, 0, 1)))

NextLive ==
    \/ \E c \in Colonies, maxSteps \in StepLimits, maxTime \in TimeLimits :
          Simulate(c, maxSteps, maxTime)
    \/ SimulateIteration
    \/ \E maxSteps \in StepLimits, maxTime \in TimeLimits :
          SwarmSimulate(maxSteps, maxTime)
    \/ SwarmSkip
    \/ SwarmAdvance
    \/ SwarmStepEnd

SpecLive ==
    /\ InitLive
    /\ [][NextLive]_vars
    /\ WF_vars(SimulateIteration)
    /\ WF_vars(SwarmSkip)
    /\ WF_vars(SwarmAdvance)
    /\ WF_vars(SwarmStepEnd)

----------------------------------------------------------------------------
(* Vocabulary of the properties *)

AgentsOf(c) == Range(cfg.agents[c])

\* a runSimulationStep has been run; last describes it
Stepped == last.colony \in Colonies

EnvTypes == {communication} \cup SwarmTypes

\* a rule alone is applicable: its lhs is in obj and, for a rule that takes
\* from an environment, its rhs is in that environment
Applicable(w, c, a, b) ==
    /\ Has(w.obj[c][a], b.lhs)
    /\ b.type \in EnvTypes => Has(EnvCounter(w, c, b.type), b.rhs)

\* some rule of some agent of colony c has a branch of type t
Uses(c, t) ==
    \E a \in AgentsOf(c) : \E p \in DOMAIN cfg.programs[c][a] :
        \E i \in DOMAIN cfg.programs[c][a][p] :
            LET r == cfg.programs[c][a][p][i]
            IN r.type = t \/ (r.main_type = conditional /\ r.alt_type = t)

\* colonies c and d read the same multiset for rules of type t
SameEnv(c, d, t) ==
    c = d \/ (t \in SwarmTypes /\ cfg.parentSwarm[c] /\ cfg.parentSwarm[d])

\* all rules before rule i of the program passed their tests in state w
Reached(w, c, a, program, i) ==
    \A j \in 1 .. (i - 1) : CheckRule(w, c, a, program[j]) \in {first, second}

----------------------------------------------------------------------------
(* C1: capacity conservation.  In every reachable state, whatever the      *)
(* results of the steps run so far, every agent holds as many objects as   *)
(* it started with.                                                        *)
C1_CapacityConserved ==
    \A c \in Colonies : \A a \in AgentsOf(c) :
        Total(obj[c][a]) = Total(cfg.init.obj[c][a])

C3_VacuousStep ==
    ( /\ Stepped
      /\ last.result # fault
      /\ \A a \in AgentsOf(last.colony) : last.possiblePrograms[a] = <<>> )
    => (last.result = no_more_executables /\ World = last.pre)

\* such a step was run in a colony whose agent holds the lhs of one of its rules
C3_Witness ==
    /\ Stepped
    /\ last.result # fault
    /\ \A a \in AgentsOf(last.colony) : last.possiblePrograms[a] = <<>>
    /\ \E a \in AgentsOf(last.colony) :
          Has(last.pre.obj[last.colony][a], cfg.programs[last.colony][a][1][1].lhs)

(* C4: every successfully executed rule that exchanges with an environment *)
(* (either branch of a conditional included) leaves the agent with one     *)
(* more rhs and one less lhs, and the environment it targets with one      *)
(* fewer rhs (unless rhs = e) and one more lhs (unless lhs = e).           *)
C4_CommunicationEffect ==
    Stepped =>
    \A i \in DOMAIN last.log :
        LET en == last.log[i]
            c == en.colony
            b == en.branch
            e == cfg.e[c]
            D(cond) == IF cond THEN 1 ELSE 0
        IN (en.ok /\ b.type \in EnvTypes) =>
           \A k \in Objects :
              /\ Count(en.after.obj[c][en.agent], k)
                   = Count(en.before.obj[c][en.agent], k) + D(k = b.rhs) - D(k = b.lhs)
              /\ Count(EnvCounter(en.after, c, b.type), k)
                   = Count(EnvCounter(en.before, c, b.type), k)
                       - D(k = b.rhs /\ b.rhs # e) + D(k = b.lhs /\ b.lhs # e)

\* the alternative branch of a conditional has exchanged two different objects
C4_Witness ==
    /\ Stepped
    /\ \E i \in DOMAIN last.log :
          /\ last.log[i].ok
          /\ last.log[i].choice = second
          /\ last.log[i].branch.type \in EnvTypes
          /\ last.log[i].branch.lhs # last.log[i].branch.rhs
          /\ last.log[i].branch.lhs # cfg.e[last.log[i].colony]

(* C5: conditional fall-through.  Whenever choseProgram tests a            *)
(* conditional rule p / q whose primary branch p is inapplicable and whose *)
(* alternative q is applicable, it marks the rule 'second'.                *)
C5_FallThrough ==
    (Stepped /\ last.result # fault) =>
    LET c == last.colony
    IN \A a \in AgentsOf(c) : \A p \in DOMAIN cfg.programs[c][a] :
          \A i \in DOMAIN cfg.programs[c][a][p] :
             LET rule == cfg.programs[c][a][p][i]
             IN ( /\ rule.main_type = conditional
                  /\ Reached(last.pre, c, a, cfg.programs[c][a][p], i)
                  /\ ~Applicable(last.pre, c, a, BranchOf(rule, first))
                  /\ Applicable(last.pre, c, a, BranchOf(rule, second)) )
                => exec_rule_nr[c][a][p][i] = second

(* C6: conditional priority.  In the program an agent was given to run, a  *)
(* conditional rule is marked 'second' only if its primary branch was not  *)
(* applicable before the step; when the primary branch was applicable the  *)
(* rule is marked 'first' and executeProgram applies the primary branch.   *)
C6_ConditionalPriority ==
    Stepped =>
    LET c == last.colony
    IN /\ \A a \in Range(last.runnableAgents) :
             LET p == last.out[a].chosenProgramNr + 1
             IN \A i \in DOMAIN cfg.programs[c][a][p] :
                   LET rule == cfg.programs[c][a][p][i]
                       primary == Applicable(last.pre, c, a, BranchOf(rule, first))
                   IN rule.main_type = conditional =>
                        /\ exec_rule_nr[c][a][p][i] = second => ~primary
                        /\ primary => exec_rule_nr[c][a][p][i] = first
       /\ \A n \in DOMAIN last.log :
             LET en == last.log[n]
                 rule == cfg.programs[c][en.agent][last.out[en.agent].chosenProgramNr + 1][en.rule]
             IN ( /\ rule.main_type = conditional
                  /\ Applicable(last.pre, c, en.agent, BranchOf(rule, first)) )
                => (en.choice = first /\ en.branch = BranchOf(rule, first))

\* a conditional rule both of whose branches were applicable has been executed
C6_Witness ==
    /\ Stepped
    /\ \E n \in DOMAIN last.log :
          LET en == last.log[n]
              c == last.colony
              rule == cfg.programs[c][en.agent][last.out[en.agent].chosenProgramNr + 1][en.rule]
          IN /\ rule.main_type = conditional
             /\ en.ok
             /\ Applicable(last.pre, c, en.agent, BranchOf(rule, first))
             /\ Applicable(last.pre, c, en.agent, BranchOf(rule, second))
             /\ BranchOf(rule, first) # BranchOf(rule, second)

\* the requirement loops with the colony's e, not the name 'e', unlimited
RequirementsMetUpToE(w, c, a, req) ==
    /\ \A k \in DOMAIN req.obj : Count(w.obj[c][a], k) >= req.obj[k]
    /\ \A t \in EnvTypes : \A k \in (DOMAIN req[EnvField(t)]) \ {cfg.e[c]} :
          Count(EnvCounter(w, c, t), k) >= req[EnvField(t)][k]

(* C7: the elementary object is unlimited in the aggregate check.  A       *)
(* program all of whose rules pass their tests, and whose chosen branches  *)
(* demand no more than obj and the environments hold when the colony's e   *)
(* is not counted, is put in possiblePrograms.                             *)
C7_ElementaryUnlimited ==
    (Stepped /\ last.result # fault) =>
    LET c == last.colony
    IN \A a \in AgentsOf(c) : \A p \in DOMAIN cfg.programs[c][a] :
          LET r == CheckRules(last.pre, c, a, cfg.programs[c][a][p], 1,
                      [executable |-> TRUE, fault |-> FALSE,
                       marks |-> exec_rule_nr[c][a][p], req |-> NoRequirements])
          IN (r.executable /\ RequirementsMetUpToE(last.pre, c, a, r.req))
             => (p - 1) \in Range(last.possiblePrograms[a])

(* C8: selection outcome.  With L the applicable programs of an agent      *)
(* whose choseProgram call returned, the call returned False and left      *)
(* chosenProgramNr = -1 iff L is empty; otherwise it returned True with    *)
(* chosenProgramNr in L, the single element when |L| = 1, and any member   *)
(* of L when |L| > 1.                                                      *)
C8_SelectionOutcome ==
    Stepped =>
    \A a \in last.returned :
        LET L == last.possiblePrograms[a]
            o == last.out[a]
        IN /\ (~o.ret) <=> (L = <<>>)
           /\ (o.chosenProgramNr = -1) <=> (L = <<>>)
           /\ L # <<>> => o.chosenProgramNr \in Range(L)
           /\ Len(L) = 1 => o.chosenProgramNr = L[1]
           /\ chosenProgramNr[last.colony][a] = o.chosenProgramNr
           /\ Len(L) > 1 => {x.chosenProgramNr : x \in ChoseOutcomes(L)} = Range(L)

\* an agent with two applicable programs was given the second
C8_Witness ==
    /\ Stepped
    /\ \E a \in last.returned :
          /\ Len(last.possiblePrograms[a]) = 2
          /\ chosenProgramNr[last.colony][a] = last.possiblePrograms[a][2]

(* C9 as stated, its error case: a step that returns error leaves every    *)
(* obj and every environment equal to its value before the step.           *)
C9_ErrorChangesNothing ==
    (Stepped /\ last.result = error) => World = last.pre

(* C10: Pcolony.simulate returns True iff its last step returned           *)
(* no_more_executables, also when a limit is reached at that step; it      *)
(* returns False when the step returned error or a limit was hit.          *)
C10_DriverResult ==
    sim.pc = "returned" =>
        /\ sim.ret \in {"True", "False"}
        /\ sim.ret = "True" <=> last.result = no_more_executables
        /\ last.result = error => sim.ret = "False"
        /\ ( /\ last.result = finished
             /\ \/ sim.timeUp /\ sim.maxTime > 0
                \/ sim.currentStep >= sim.maxSteps /\ sim.maxSteps > 0 )
           => sim.ret = "False"
        /\ last.result = finished =>
             \/ sim.timeUp /\ sim.maxTime > 0
             \/ sim.currentStep >= sim.maxSteps /\ sim.maxSteps > 0

\* simulate returned True at the step at which the step limit was reached
C10_Witness ==
    /\ sim.pc = "returned"
    /\ sim.ret = "True"
    /\ sim.maxSteps > 0
    /\ sim.currentStep >= sim.maxSteps

(* C11: step limit.  With maxSteps = N > 0 and no time limit, a            *)
(* Pcolony.simulate has called runSimulationStep at most N times, at every *)
(* moment of its run and when it returns.                                  *)
C11_StepLimit ==
    (sim.pc \in {"loop", "returned"} /\ sim.maxSteps > 0 /\ sim.maxTime <= 0)
        => sim.calls <= sim.maxSteps

(* C12: finished colonies stay finished.  In every step of a               *)
(* Pswarm.simulate run, a colony whose recorded result is                  *)
(* no_more_executables keeps that result, is not run, and keeps the obj of *)
(* its agents and its env.                                                 *)
C12_FinishedStaysFinished ==
    [][\A c \in Range(ColonyOrder) :
          ( /\ swarm.inSimulate
            /\ c \in DOMAIN swarm.simResult
            /\ swarm.simResult[c] = no_more_executables )
          => /\ swarm'.simResult[c] = no_more_executables
             /\ swarm'.advanced # Append(swarm.advanced, c)
             /\ obj'[c] = obj[c]
             /\ env'[c] = env[c]]_vars

\* a running Pswarm.simulate has passed over a finished colony one of whose
\* programs is applicable by now
C12_Witness ==
    /\ swarm.inSimulate
    /\ \E c \in Range(swarm.skipped) : \E a \in AgentsOf(c) :
          PossiblePrograms(World, c, a, exec_rule_nr[c][a]).possiblePrograms # <<>>

\* what C13 says of a swarm step ls that returned
SwarmStepResultAsStated(ls) ==
    /\ ls.result = no_more_executables
          <=> \A c \in Range(ColonyOrder) : ls.post[c] = no_more_executables
    /\ ls.result = finished
          <=> (error \notin Range(ls.results) /\ finished \in Range(ls.results))
    /\ ls.result = error <=> error \in Range(ls.results)

(* C13: swarm step result.  A Pswarm.runSimulationStep that returned gave  *)
(* no_more_executables iff every colony's recorded result is               *)
(* no_more_executables after it, finished iff no colony returned error and *)
(* some colony returned finished, and error iff some colony returned       *)
(* error.                                                                  *)
C13_SwarmStepResult ==
    swarm.lastStep.result # "none" => SwarmStepResultAsStated(swarm.lastStep)

\* a swarm step found every colony finished already and ran none
C13_Witness ==
    /\ swarm.lastStep.result = no_more_executables
    /\ swarm.lastStep.advanced = <<>>
    /\ swarm.lastStep.skipped = ColonyOrder

\* the colonies a swarm step has to run, in the order of C
ToAdvance(prior) == SelectSeq(ColonyOrder, LAMBDA c : prior[c] # no_more_executables)

\* the results of the colonies that were run are the recorded ones, the
\* other colonies keep theirs, and an error of a colony is the step's result
SwarmStepRecorded(ls) ==
    /\ \A k \in DOMAIN ls.advanced : ls.post[ls.advanced[k]] = ls.results[k]
    /\ \A c \in Range(ColonyOrder) \ Range(ls.advanced) : ls.post[c] = ls.prior[c]
    /\ error \in Range(ls.results) => ls.result = error

(* C14 as stated: a Pswarm.runSimulationStep that returned has run every   *)
(* colony whose prior result is not no_more_executables once, in the order *)
(* of C, recorded their results, and returned error if one of them did.    *)
C14_SwarmStepCoverage ==
    swarm.lastStep.result # "none"
        => /\ swarm.lastStep.advanced = ToAdvance(swarm.lastStep.prior)
           /\ SwarmStepRecorded(swarm.lastStep)

\* adv is the beginning of todo that ends with the first colony whose
\* result is error, or the whole of todo when there is none
UpToFirstError(adv, results, todo) ==
    /\ Len(adv) <= Len(todo)
    /\ adv = SubSeq(todo, 1, Len(adv))
    /\ \A k \in 1 .. (Len(adv) - 1) : results[k] # error
    /\ Len(adv) < Len(todo) => (Len(adv) > 0 /\ results[Len(adv)] = error)

(* C14 amended: a Pswarm.runSimulationStep that returned has run, once     *)
(* each and in the order of C, the colonies whose prior result is not      *)
(* no_more_executables up to and including the first one that returned     *)
(* error (all of them when none did), recorded their results, left the     *)
(* other results alone, and returned error if one of them did.             *)
C14_SwarmStepCoverageToError ==
    swarm.lastStep.result # "none"
        => /\ UpToFirstError(swarm.lastStep.advanced, swarm.lastStep.results,
                             ToAdvance(swarm.lastStep.prior))
           /\ SwarmStepRecorded(swarm.lastStep)

\* the first colony returned error and the second one, not finished, was
\* not run
C14_Witness ==
    /\ swarm.lastStep.result = error
    /\ Len(swarm.lastStep.advanced) = 1
    /\ Len(ToAdvance(swarm.lastStep.prior)) = 2

\* the choseProgram calls of one step, s being its Selection, got the same
\* random draws in out1 and out2: random.randint is called by the agents
\* that found several applicable programs, and its value designates one
\* entry of possiblePrograms, whose entries are distinct
SameDraws(s, out1, out2) ==
    \A a \in s.returned :
        Len(s.sel[a].possiblePrograms) > 1
            => out1[a].chosenProgramNr = out2[a].chosenProgramNr

RuleObjects(r) ==
    {r.lhs, r.rhs} \cup (IF r.main_type = conditional THEN {r.alt_lhs, r.alt_rhs} ELSE {})

\* the keys of every obj, every colony env and the three swarm environments
\* of w
KeysOf(w) ==
    UNION {UNION {DOMAIN w.obj[c][a] : a \in DOMAIN w.obj[c]} : c \in Colonies}
        \cup UNION {DOMAIN w.env[c] : c \in Colonies}
        \cup DOMAIN w.global_env \cup DOMAIN w.in_global_env \cup DOMAIN w.out_global_env

\* the rules of the programs of agent a of colony c
RulesOf(c, a) ==
    UNION {Range(cfg.programs[c][a][p]) : p \in DOMAIN cfg.programs[c][a]}

\* the least union of alphabets that the premise of C16 allows: the objects
\* of the initial multisets and of the sides of the rules
DeclaredObjects ==
    KeysOf(cfg.init)
        \cup UNION {UNION {UNION {RuleObjects(r) : r \in RulesOf(c, a)} :
                              a \in DOMAIN cfg.programs[c]} : c \in Colonies}

(* C16: alphabet closure.  In every reachable state the keys of every obj, *)
(* every colony env and every swarm environment are objects of the initial *)
(* multisets or of the sides of the rules.                                 *)
C16_AlphabetClosure == KeysOf(World) \subseteq DeclaredObjects

\* a step has put into a colony env an object that this env did not hold
\* at the start, in a colony that does not declare every object
C16_Witness ==
    /\ Stepped
    /\ DeclaredObjects # Objects
    /\ \E c \in Colonies : ~(DOMAIN env[c] \subseteq DOMAIN cfg.init.env[c])

\* colony c has a program whose number of rules is not its n
CapacityViolated(c) ==
    \E a \in AgentsOf(c) : \E p \in DOMAIN cfg.programs[c][a] :
        Len(cfg.programs[c][a][p]) # cfg.n[c]

(* C17: capacity violation is an error.  A runSimulationStep of a colony   *)
(* that has a program whose number of rules differs from n returns error,  *)
(* and no agent has selected such a program.                               *)
C17_CapacityViolation ==
    (Stepped /\ last.result # fault)
        => /\ CapacityViolated(last.colony) => last.result = error
           /\ \A a \in last.returned :
                 last.out[a].ret
                     => Len(cfg.programs[last.colony][a][last.out[a].chosenProgramNr + 1])
                            = cfg.n[last.colony]

\* the names that item stands for: '%id' replaced by myId, '*' by each suffix
Expanded(item, suffixList, myId) ==
    IF Contains(item, "*")
    THEN {Replace(Replace(item, "%id", myId), "*", suffixList[i]) : i \in DOMAIN suffixList}
    ELSE {Replace(item, "%id", myId)}

\* what C18 says of the result newCounter
CounterExpanded(objectCounter, suffixList, myId, newCounter) ==
    /\ \A k \in DOMAIN newCounter : ~Contains(k, "*") /\ ~Contains(k, "%id")
    /\ DOMAIN newCounter
          = UNION {Expanded(objectCounter[i].item, suffixList, myId) : i \in DOMAIN objectCounter}
    /\ \A i \in DOMAIN objectCounter :
          \A k \in Expanded(objectCounter[i].item, suffixList, myId) :
              (\A j \in DOMAIN objectCounter \ {i} :
                  k \notin Expanded(objectCounter[j].item, suffixList, myId))
              => (k \in DOMAIN newCounter /\ newCounter[k] = objectCounter[i].count)

(* C18: multiset wildcard expansion.  The multiset that                    *)
(* processObjectCounterWildcards returns has, for every key with '*', the  *)
(* keys with each suffix in its place and the original count, for every    *)
(* key with '%id' the key with myId in its place, every other key with its *)
(* count, and no key with '*' or '%id'.                                    *)
C18_CounterExpansion ==
    wild.pc = "returned"
        => CounterExpanded(wild.objectCounter, wild.suffixList, wild.myId, wild.newCounter)

\* program p with '%id' replaced by myId and then '*' by suffix in every
\* side of every rule
ExpectedProgram(p, myId, suffix) ==
    [j \in DOMAIN p |->
        [p[j] EXCEPT !.lhs = Replace(Replace(@, "%id", myId), "*", suffix),
                     !.rhs = Replace(Replace(@, "%id", myId), "*", suffix),
                     !.alt_lhs = Replace(Replace(@, "%id", myId), "*", suffix),
                     !.alt_rhs = Replace(Replace(@, "%id", myId), "*", suffix)]]

\* the programs that stand for p after the expansion: k clones of a
\* program with '*', the program itself otherwise
ExpectedPrograms(p, myId, suffixList) ==
    IF ProgramHasWildcards(p, "*")
    THEN [k \in DOMAIN suffixList |-> ExpectedProgram(p, myId, suffixList[k])]
    ELSE <<ExpectedProgram(p, myId, <<>>)>>

\* how many of the expected programs are q
ExpectedCopies(programs, myId, suffixList, q) ==
    Cardinality({ik \in (DOMAIN programs) \X (1 .. Len(suffixList) + 1) :
                    /\ ik[2] \in DOMAIN ExpectedPrograms(programs[ik[1]], myId, suffixList)
                    /\ ExpectedPrograms(programs[ik[1]], myId, suffixList)[ik[2]] = q})

\* what C19 says of the result newPrograms
ProgramsExpanded(programs, suffixList, myId, newPrograms) ==
    /\ \A q \in Range(newPrograms) :
          /\ ~ProgramHasWildcards(q, "*") /\ ~ProgramHasWildcards(q, "%id")
          /\ Cardinality({i \in DOMAIN newPrograms : newPrograms[i] = q})
                = ExpectedCopies(programs, myId, suffixList, q)
    /\ \A i \in DOMAIN programs :
          \A k \in DOMAIN ExpectedPrograms(programs[i], myId, suffixList) :
              /\ ExpectedPrograms(programs[i], myId, suffixList)[k] \in Range(newPrograms)
              /\ Len(ExpectedPrograms(programs[i], myId, suffixList)[k]) = Len(programs[i])
    /\ \A i \in DOMAIN programs :
          (ProgramHasWildcards(programs[i], "*") \/ ProgramHasWildcards(programs[i], "%id"))
              => programs[i] \notin Range(newPrograms)

(* C19: program wildcard expansion.  After Agent.processWildcards the      *)
(* programs of the agent are, for every original program with '*', its k   *)
(* clones with '%id' and then '*' replaced in every side of every rule,    *)
(* and every other program with '%id' replaced; each has the rules of its  *)
(* original, in number and kind, and none contains '*' or '%id'.           *)
C19_ProgramExpansion ==
    (wild.pc = "returned" /\ wild.fn = "Agent.processWildcards")
        => ProgramsExpanded(wild.programs, wild.suffixList, wild.myId, wild.newPrograms)

\* an agent of two programs, one with '*' and '%id' in one side and one
\* with '*' after the '/', has been expanded with two suffixes
C19_Witness ==
    /\ wild.pc = "returned"
    /\ wild.fn = "Agent.processWildcards"
    /\ Len(wild.suffixList) = 2
    /\ Len(wild.programs) = 2
    /\ \E r \in Range(wild.programs[1]) : Contains(r.rhs, "*") /\ Contains(r.rhs, "%id")
    /\ \E r \in Range(wild.programs[2]) : Contains(r.alt_rhs, "*")
    /\ Len(wild.newPrograms) = 4

\* the text declares name: "name = ..."
Declared(tokens, name) ==
    \E i \in 1 .. (Len(tokens) - 1) :
        tokens[i] = Tok("ID", name) /\ tokens[i + 1].type = "ASSIGN"

(* C20: the parser inserts the elementary object.  After parsing, a        *)
(* declared env of a colony holds at least one copy of the e that the      *)
(* colony configures, wherever "e = ..." stands, and a declared            *)
(* environment of a swarm holds at least one e.                            *)
C20_ElementaryInserted ==
    parse.pc = "returned"
        => IF parse.result.type = "Pswarm"
           THEN \A name \in {"global_env", "in_global_env", "out_global_env"} :
                   Declared(parse.tokens, name) => Count(parse.result[name], "e") >= 1
           ELSE Declared(parse.tokens, "env")
                   => Count(parse.result.env, parse.result.e) >= 1

\* the branches that the exec_rule_nr of program p of agent a designate
ChosenBranches(c, a, p) ==
    [i \in DOMAIN cfg.programs[c][a][p] |->
        BranchOf(cfg.programs[c][a][p][i], exec_rule_nr[c][a][p][i])]

\* the chosen branches bs demand from state w no more of any object than
\* the agent holds, and no more of any object but e than each environment
\* holds
Feasible(w, c, a, bs, e) ==
    /\ \A o \in Objects :
          Cardinality({i \in DOMAIN bs : bs[i].lhs = o}) <= Count(w.obj[c][a], o)
    /\ \A t \in EnvTypes : \A o \in Objects \ {e} :
          Cardinality({i \in DOMAIN bs : bs[i].type = t /\ bs[i].rhs = o})
              <= Count(EnvCounter(w, c, t), o)

(* C21: aggregate feasibility.  Every program that choseProgram put in     *)
(* possiblePrograms demands, with the branches chosen for its rules, no    *)
(* more copies of an object than the agent held before the step and, of    *)
(* every object other than the colony's e, no more than the environment of *)
(* the branch held.                                                        *)
C21_AggregateFeasibility ==
    (Stepped /\ last.result # fault)
        => \A a \in last.returned : \A nr \in Range(last.possiblePrograms[a]) :
              Feasible(last.pre, last.colony, a,
                       ChosenBranches(last.colony, a, nr + 1), cfg.e[last.colony])

C23_SelectionReturns ==
    Stepped => last.returned = AgentsOf(last.colony)

\* the environments of kind t, one per colony for the colony environment,
\* of state w
EnvOfKind(w, t) == IF t = communication THEN w.env ELSE w[EnvField(t)]

(* C24: each rule kind touches only its own environment.  A rule that is   *)
(* run, whether it succeeds or not, changes no environment of a kind other *)
(* than its own (an evolution rule changes none), a communication rule     *)
(* changes the env of no other colony, and no rule changes the obj of an   *)
(* agent other than the one that runs it.                                  *)
C24_RuleFrame ==
    Stepped =>
    \A i \in DOMAIN last.log :
        /\ \A t \in EnvTypes \ {last.log[i].branch.type} :
              EnvOfKind(last.log[i].after, t) = EnvOfKind(last.log[i].before, t)
        /\ \A d \in Colonies \ {last.log[i].colony} :
              /\ last.log[i].after.env[d] = last.log[i].before.env[d]
              /\ last.log[i].after.obj[d] = last.log[i].before.obj[d]
        /\ \A a \in AgentsOf(last.log[i].colony) \ {last.log[i].agent} :
              last.log[i].after.obj[last.log[i].colony][a]
                  = last.log[i].before.obj[last.log[i].colony][a]

\* a rule of one of the three swarm kinds has changed its environment in a
\* swarm of two colonies that both have an agent
C24_Witness ==
    /\ Stepped
    /\ \A d \in Colonies : AgentsOf(d) # {}
    /\ \E i \in DOMAIN last.log :
          /\ last.log[i].ok
          /\ last.log[i].branch.type \in SwarmTypes
          /\ EnvOfKind(last.log[i].after, last.log[i].branch.type)
                # EnvOfKind(last.log[i].before, last.log[i].branch.type)

\* the place of agent a in the list of runnable agents
RunnablePlace(a) == CHOOSE i \in DOMAIN last.runnableAgents : last.runnableAgents[i] = a

(* C25: an error halts the commit phase.  The runnable agents execute in   *)
(* the order in which they were found runnable; a rule that fails is the   *)
(* last thing the step runs, the step then returns error and the runnable  *)
(* agents after the failing one keep their obj; the step returns finished  *)
(* only if every runnable agent has executed and every rule succeeded.     *)
C25_ErrorHalts ==
    (Stepped /\ last.result # fault) =>
        /\ \A i \in DOMAIN last.log :
              /\ last.log[i].agent \in Range(last.runnableAgents)
              /\ \A j \in DOMAIN last.log :
                    i <= j => RunnablePlace(last.log[i].agent)
                                 <= RunnablePlace(last.log[j].agent)
              /\ ~last.log[i].ok => (i = Len(last.log) /\ last.result = error)
        /\ last.result = error =>
              /\ last.log # <<>>
              /\ ~last.log[Len(last.log)].ok
              /\ \A k \in DOMAIN last.runnableAgents :
                    k > RunnablePlace(last.log[Len(last.log)].agent)
                        => obj[last.colony][last.runnableAgents[k]]
                             = last.pre.obj[last.colony][last.runnableAgents[k]]
        /\ last.result = finished =>
              \A a \in Range(last.runnableAgents) :
                  \E i \in DOMAIN last.log : last.log[i].agent = a

\* the first of two runnable agents failed and the second one did not run
C25_Witness ==
    /\ Stepped
    /\ last.result = error
    /\ Len(last.runnableAgents) = 2
    /\ last.log[Len(last.log)].agent = last.runnableAgents[1]
    /\ obj[last.colony][last.runnableAgents[2]]
          = last.pre.obj[last.colony][last.runnableAgents[2]]

\* the possiblePrograms that choseProgram of agent a of the stepped colony
\* builds in state w
SelectedIn(w, a) ==
    PossiblePrograms(w, last.colony, a, exec_rule_nr[last.colony][a]).possiblePrograms

\* the state in which agent a started to execute in the last step
StartOf(a) ==
    last.log[CHOOSE i \in DOMAIN last.log :
                /\ last.log[i].agent = a
                /\ \A j \in 1 .. (i - 1) : last.log[j].agent # a].before

(* C26: two-phase step.  The selection of every agent of the colony is     *)
(* the one that the state at the start of the step gives, whatever the     *)
(* agents before it execute in that step, and an agent executes exactly    *)
(* when that selection gave it a program.                                  *)
C26_TwoPhase ==
    (Stepped /\ last.result # fault) =>
        \A a \in AgentsOf(last.colony) :
            /\ last.possiblePrograms[a] = SelectedIn(last.pre, a)
            /\ a \in Range(last.runnableAgents) <=> SelectedIn(last.pre, a) # <<>>

\* the second runnable agent executed a program that it would not have
\* selected in the state the first agent had left
C26_Witness ==
    /\ Stepped
    /\ Len(last.runnableAgents) = 2
    /\ \E i \in DOMAIN last.log : last.log[i].agent = last.runnableAgents[2]
    /\ SelectedIn(StartOf(last.runnableAgents[2]), last.runnableAgents[2])
          # last.possiblePrograms[last.runnableAgents[2]]

\* the branches of the program that agent a executed in the last step
ExecutedBranches(a) ==
    ChosenBranches(last.colony, a, chosenProgramNr[last.colony][a] + 1)

\* some branch of bs takes o from the environment of kind t
Takes(bs, t, o) == \E i \in DOMAIN bs : bs[i].type = t /\ bs[i].rhs = o

\* some branch of bs hands o to the environment of kind t
Returns(bs, t, o) == \E i \in DOMAIN bs : bs[i].type = t /\ bs[i].lhs = o

\* log entry j is the rule by which a later agent takes the object o, not
\* the colony's e, from the environment of kind t that held one copy before
\* the step, after an earlier runnable agent whose program takes o from that
\* environment and does not hand it back
Contested(j, t, o) ==
    /\ last.log[j].branch.type = t
    /\ last.log[j].branch.rhs = o
    /\ o # cfg.e[last.colony]
    /\ Count(EnvCounter(last.pre, last.colony, t), o) = 1
    /\ \E a \in Range(last.runnableAgents) :
          /\ RunnablePlace(a) < RunnablePlace(last.log[j].agent)
          /\ Takes(ExecutedBranches(a), t, o)
          /\ ~Returns(ExecutedBranches(a), t, o)

\* before its rule j the agent of log entry j handed o to the environment
\* of kind t itself
ReturnedBefore(j, t, o) ==
    \E k \in 1 .. (j - 1) :
        /\ last.log[k].agent = last.log[j].agent
        /\ last.log[k].branch.type = t
        /\ last.log[k].branch.lhs = o

PlaceInB(a) == CHOOSE i \in DOMAIN cfg.B[last.colony] : cfg.B[last.colony][i] = a

(* C28: agent order is the order of B.  The agents of a step are found     *)
(* runnable, and their rules execute, in the order in which B names them,  *)
(* also when the input defines the agent blocks in another order.          *)
C28_OrderOfB ==
    Stepped =>
        /\ \A i \in DOMAIN last.runnableAgents : \A j \in DOMAIN last.runnableAgents :
              i < j => PlaceInB(last.runnableAgents[i]) < PlaceInB(last.runnableAgents[j])
        /\ \A i \in DOMAIN last.log : \A j \in DOMAIN last.log :
              i <= j => PlaceInB(last.log[i].agent) <= PlaceInB(last.log[j].agent)

\* the colony step that the swarm loop has just run selected, for every
\* agent of colony c, what the state w gives
SelectedAgainst(w, c, step) ==
    \A a \in AgentsOf(c) :
        step.possiblePrograms[a]
            = PossiblePrograms(w, c, a, exec_rule_nr[c][a]).possiblePrograms

(* C29: cross-colony visibility inside a swarm step.  Every colony step    *)
(* that the loop of Pswarm.runSimulationStep runs selects against the      *)
(* state as the colonies before it in C have left it in that same swarm    *)
(* step, their changes to the swarm environments included.                 *)
C29_CrossColonyVisibility ==
    [][(swarm.pc = "step" /\ last' # last)
          => SelectedAgainst(World, last'.colony, last')]_vars

\* in the first swarm step the second colony has taken from global_env an
\* object that global_env did not hold before the first colony's step
C29_Witness ==
    /\ swarm.pc = "step"
    /\ swarm.lastStep = NoSwarmStep
    /\ swarm.advanced = ColonyOrder
    /\ last.colony = ColonyOrder[2]
    /\ \E i \in DOMAIN last.log :
          /\ last.log[i].ok
          /\ last.log[i].branch.type = exteroceptive
          /\ ~Has(cfg.init.global_env, last.log[i].branch.rhs)

(* C30: the swarm driver mirrors the colony driver.  A Pswarm.simulate     *)
(* without time limit has returned what the tests of Pcolony.simulate give *)
(* for the same step result, step count and maxSteps, after the same       *)
(* number of steps; in particular True when the step that reaches the step *)
(* limit returns no_more_executables.                                      *)
C30_DriversAgree ==
    (swarm.ret \in {"True", "False"} /\ swarm.maxTime <= 0) =>
        /\ swarm.ret = SimulateTests(swarm.tested.stepResult, swarm.timeUp,
                                     swarm.tested.currentStep, swarm.maxSteps,
                                     swarm.maxTime)
        /\ swarm.calls = swarm.tested.currentStep + 1

\* a driver that was given a step limit is in its loop
DriverRunning ==
    \/ sim.pc = "loop" /\ sim.maxSteps > 0
    \/ swarm.inSimulate /\ swarm.pc # "raised" /\ swarm.maxSteps > 0

(* C31: driver termination.  With maxSteps > 0 a running Pcolony.simulate  *)
(* and a running Pswarm.simulate come to their return (or to an exception) *)
(* after finitely many steps, whatever the programs; the limits are tested *)
(* after a whole step only.                                                *)
C31_DriverTermination == DriverRunning ~> ~DriverRunning

\* the step limit has ended the simulation of a colony whose last step still
\* executed programs
C31_Witness ==
    /\ sim.pc = "returned"
    /\ sim.ret = "False"
    /\ sim.maxSteps > 0
    /\ sim.maxTime <= 0
    /\ sim.calls = sim.maxSteps + 1
    /\ last.result = finished

\* every key that a counter of state w stores has a count of at least 1
Pruned(w) ==
    /\ \A c \in Colonies :
          /\ \A k \in DOMAIN w.env[c] : w.env[c][k] >= 1
          /\ \A a \in DOMAIN w.obj[c] : \A k \in DOMAIN w.obj[c][a] : w.obj[c][a][k] >= 1
    /\ \A k \in DOMAIN w.global_env : w.global_env[k] >= 1
    /\ \A k \in DOMAIN w.in_global_env : w.in_global_env[k] >= 1
    /\ \A k \in DOMAIN w.out_global_env : w.out_global_env[k] >= 1

(* C32: zero-pruning.  In every reachable state, and after every rule that *)
(* executeProgram ran, whether it succeeded or made the call return False, *)
(* every key stored in an agent's obj, a colony env or a swarm environment *)
(* has a count of at least 1.                                              *)
C32_ZeroPruning ==
    /\ Pruned(World)
    /\ Stepped => \A i \in DOMAIN last.log : Pruned(last.log[i].after)

\* a step that ended in error has taken the last copy of an object from an
\* environment, whose key is gone
C32_Witness ==
    /\ Stepped
    /\ last.result = error
    /\ \E i \in DOMAIN last.log :
          /\ last.log[i].ok
          /\ last.log[i].branch.type \in EnvTypes
          /\ Count(EnvCounter(last.log[i].before, last.log[i].colony,
                              last.log[i].branch.type), last.log[i].branch.rhs) = 1
          /\ ~Has(EnvCounter(last.log[i].after, last.log[i].colony,
                             last.log[i].branch.type), last.log[i].branch.rhs)

\* the rule execution recorded as en leaves the count of the e of colony d
\* in the multiset that d reads for rules of type t as it was
KeepsE(en, d, t) ==
    Count(EnvCounter(en.after, d, t), cfg.e[d]) = Count(EnvCounter(en.before, d, t), cfg.e[d])

CopyStepped == snap.kind \in {"colony", "swarm"} /\ snap.last.colony \in Colonies

\* the last step of the copy left the multisets of the original as they were
OriginalKept == CopyStepped => snap.origPost = snap.origPre

\* the multisets the rules of the copy reach are as the copy's own last
\* operation left them, whatever steps the original has run since
CopyKept ==
    snap.kind \in {"colony", "swarm"} => CopyWorld(snap, World) = snap.own

(* C34 as stated: after getDeepCopyOf of a Pswarm or of a Pcolony, with or  *)
(* without a parent_swarm, the steps of the copy leave every obj, env and   *)
(* swarm environment of the original unchanged, and the steps of the        *)
(* original leave those of the copy unchanged.                              *)
C34_SnapshotIndependence == OriginalKept /\ CopyKept

\* the copy was made with a parent_swarm (Pswarm.copy_init passes the new
\* swarm), or of a colony that has no parentSwarm
OwnSwarm ==
    \/ snap.parent_swarm # "none"
    \/ \E c \in snap.colonies : ~cfg.parentSwarm[c]

(* C34 amended: the same, for a Pswarm copy, a copy of a stand-alone colony *)
(* and a colony copy that was given another Pswarm as parent_swarm; for     *)
(* every copy the obj of the agents and the env of the colonies are         *)
(* independent.                                                             *)
C34_SnapshotIndependenceOwnSwarm ==
    /\ OwnSwarm => (OriginalKept /\ CopyKept)
    /\ CopyStepped => /\ snap.origPost.obj = snap.origPre.obj
                      /\ snap.origPost.env = snap.origPre.env
    /\ snap.kind \in {"colony", "swarm"} => /\ snap.obj = snap.own.obj
                                              /\ snap.env = snap.own.env

\* a colony of a Pswarm copy has exchanged an object with the swarm
\* environment of the copy after the original had run a step of its own
C34_Witness ==
    /\ CopyStepped
    /\ snap.kind = "swarm"
    /\ snap.last.result = finished
    /\ \E i \in DOMAIN snap.last.log :
          /\ snap.last.log[i].ok
          /\ snap.last.log[i].branch.type \in SwarmTypes
          /\ snap.last.log[i].after.global_env # snap.last.log[i].before.global_env
    /\ snap.global_env # global_env
    /\ Stepped
    /\ World # cfg.init

(* C35: agent-side execution fault unreachable.  Every rule that            *)
(* executeProgram runs in a step, after the choseProgram call of its agent  *)
(* returned True, finds at least one copy of the lhs of its chosen branch   *)
(* in the agent's obj: no rule fails because the agent lacks the object.    *)
C35_AgentSideAvailable ==
    Stepped => \A i \in DOMAIN last.log :
        /\ last.out[last.log[i].agent].ret
        /\ Count(last.log[i].before.obj[last.log[i].colony][last.log[i].agent],
                 last.log[i].branch.lhs) >= 1

\* the second rule of a program has consumed the last copy of the object
\* that the first rule had consumed a copy of, one through the alternative
\* branch of a conditional rule
C35_Witness ==
    /\ Stepped
    /\ \E i, j \in DOMAIN last.log :
          LET en == last.log[i]
              em == last.log[j]
          IN /\ en.agent = em.agent /\ en.rule = 1 /\ em.rule = 2
             /\ en.ok /\ em.ok
             /\ en.branch.lhs = em.branch.lhs
             /\ second \in {en.choice, em.choice}
             /\ Count(em.before.obj[em.colony][em.agent], em.branch.lhs) = 1

\* colony c has exactly one agent, and no other colony has an agent that
\* could use the environments c uses
Lone(c) ==
    /\ Cardinality(AgentsOf(c)) = 1
    /\ \A d \in Colonies \ {c} : AgentsOf(d) = {}

(* C36: a lone agent never faults.  A step of a colony whose single agent   *)
(* is the only user of its environments does not return error, whatever     *)
(* its programs, its multisets and the object configured as e.             *)
C36_LoneAgentNeverFaults ==
    (Stepped /\ Lone(last.colony)) => last.result # error

\* the same for the colonies whose e is the one named 'e'
C36_LoneAgentNeverFaultsNamedE ==
    (Stepped /\ Lone(last.colony) /\ cfg.e[last.colony] = "e") => last.result # error

\* the copies of object o that colony c holds in state w: in the obj of its
\* agents and in its env
Held(w, c, o) ==
    SumOver([a \in AgentsOf(c) |-> Count(w.obj[c][a], o)], AgentsOf(c))
        + Count(w.env[c], o)

\* every program of colony c consists of communication rules and of
\* conditional rules with two communication branches
CommunicationOnly(c) ==
    \A a \in AgentsOf(c) : \A p \in DOMAIN cfg.programs[c][a] :
        \A i \in DOMAIN cfg.programs[c][a][p] :
            LET r == cfg.programs[c][a][p][i]
            IN /\ r.type = communication
               /\ r.main_type = conditional => r.alt_type = communication

(* C37: object conservation under communication.  A step of a colony whose  *)
(* programs hold communication rules only, that returns finished or         *)
(* no_more_executables, leaves the number of copies of every object other   *)
(* than e that the agents and the colony env hold together as it was.       *)
C37_CommunicationConserves ==
    ( /\ Stepped
      /\ CommunicationOnly(last.colony)
      /\ last.result \in {finished, no_more_executables} )
    => \A o \in Objects \ {cfg.e[last.colony]} :
          Held(World, last.colony, o) = Held(last.pre, last.colony, o)

\* a finished step of a stand-alone colony of two agents in which an agent
\* has exchanged an object for another one, neither being e, and an agent
\* has taken an e
C37_Witness ==
    /\ Stepped
    /\ ~cfg.parentSwarm[last.colony]
    /\ Cardinality(AgentsOf(last.colony)) = 2
    /\ CommunicationOnly(last.colony)
    /\ last.result = finished
    /\ \E i \in DOMAIN last.log :
          /\ last.log[i].branch.lhs # cfg.e[last.colony]
          /\ last.log[i].branch.rhs # cfg.e[last.colony]
          /\ last.log[i].branch.lhs # last.log[i].branch.rhs
    /\ \E i \in DOMAIN last.log : last.log[i].branch.rhs = cfg.e[last.colony]

(* C38: swarm step without prior results.  A Pswarm.runSimulationStep that  *)
(* was called on its own on a swarm with no recorded result does not end in *)
(* an exception: it goes through the colonies of C, having advanced every   *)
(* colony it has passed.                                                    *)
C38_StepWithoutResults ==
    (~swarm.inSimulate /\ swarm.prior = NoResults /\ swarm.pc # "idle")
        => /\ swarm.pc = "step"
           /\ swarm.advanced = SubSeq(ColonyOrder, 1, swarm.i - 1)

====
